---------------------------- MODULE Spec2Model ----------------------------
(***************************************************************************)
(* Conversation memory + persona-consistency pipeline.                     *)
(*                                                                         *)
(* Texts are TLA+ strings handled character by character: lower-casing,    *)
(* substring search and the regular expressions of the rule engines are    *)
(* computed, not assumed.  The input alphabet is ASCII letters, digits,    *)
(* the blank and the punctuation . , ! ? ' (no line breaks, no U+2019).    *)
(***************************************************************************)
EXTENDS Integers, Sequences, FiniteSets, TLC

(***************************************************************************)
(* Characters and strings (JavaScript String primitives)                   *)
(***************************************************************************)
LowerLetters == {"a","b","c","d","e","f","g","h","i","j","k","l","m",
                 "n","o","p","q","r","s","t","u","v","w","x","y","z"}

UpperSeq == <<"A","B","C","D","E","F","G","H","I","J","K","L","M",
              "N","O","P","Q","R","S","T","U","V","W","X","Y","Z">>

LowerSeq == <<"a","b","c","d","e","f","g","h","i","j","k","l","m",
              "n","o","p","q","r","s","t","u","v","w","x","y","z">>

Digits == {"0","1","2","3","4","5","6","7","8","9"}

UpperLetters == {UpperSeq[i] : i \in 1..26}

\* \w of a regular expression
WordChars == LowerLetters \cup UpperLetters \cup Digits \cup {"_"}

\* \s of a regular expression, within the input alphabet
SpaceChars == {" "}

Punctuation == {".", ",", "!", "?", "'", ":", ";", "-", "(", ")"}

Ch(s, i) == SubSeq(s, i, i)

LowerChar(c) ==
    IF c \in UpperLetters
    THEN LowerSeq[CHOOSE i \in 1..26 : UpperSeq[i] = c]
    ELSE c

RECURSIVE LowerRange(_, _, _)
\* the characters a..b of s in lower case (halving keeps the recursion shallow)
LowerRange(s, a, b) ==
    IF a > b THEN ""
    ELSE IF a = b THEN LowerChar(Ch(s, a))
    ELSE LET mid == (a + b) \div 2
         IN  LowerRange(s, a, mid) \o LowerRange(s, mid + 1, b)

\* String.prototype.toLowerCase
ToLowerCase(s) == LowerRange(s, 1, Len(s))

\* String.prototype.includes
Includes(s, t) ==
    \E i \in 1..(Len(s) - Len(t) + 1) : SubSeq(s, i, i + Len(t) - 1) = t

RECURSIVE TrimLeft(_)
TrimLeft(s) ==
    IF Len(s) > 0 /\ Ch(s, 1) \in SpaceChars THEN TrimLeft(Tail(s)) ELSE s

RECURSIVE TrimRight(_)
TrimRight(s) ==
    IF Len(s) > 0 /\ Ch(s, Len(s)) \in SpaceChars
    THEN TrimRight(SubSeq(s, 1, Len(s) - 1)) ELSE s

\* String.prototype.trim
Trim(s) == TrimRight(TrimLeft(s))

(***************************************************************************)
(* Regular expressions.  A pattern is a list of alternatives tried in      *)
(* order; an alternative is a sequence of items:                           *)
(*   Alt(<<a,b>>)      a|b over literals, tried in order (the patterns     *)
(*                     carry the i flag: the subject is put in lower case) *)
(*   Run(cls,min,g)    cls+ / cls*, greedy when g, lazy otherwise          *)
(*   One(cls)          one character of the class                          *)
(*   Rep(a,b)          (?:a+b+)* greedy                                    *)
(*   BolOr(cls)        (?:^|cls)                                           *)
(*   Open(n) Close(n)  the parentheses of capture group n                  *)
(*   WB EOL            \b $                                                *)
(* A match is found the way a backtracking engine finds it: leftmost       *)
(* start, and at every choice the first option, in the engine's order,     *)
(* after which the rest of the pattern can still match.                    *)
(***************************************************************************)
\* . of a regular expression: every character of the input alphabet
AnyCls == WordChars \cup SpaceChars \cup Punctuation

Alt(ss) == [k |-> "alt", a |-> ss]
Lit(s) == Alt(<<s>>)
Run(cls, min, g) == [k |-> "run", cls |-> cls, min |-> min, greedy |-> g]
One(cls) == [k |-> "one", cls |-> cls]
Rep(a, b) == [k |-> "rep", a |-> a, b |-> b]
BolOr(cls) == [k |-> "bolor", cls |-> cls]
Open(n) == [k |-> "open", n |-> n]
Close(n) == [k |-> "close", n |-> n]
WB == [k |-> "wb"]
EOL == [k |-> "eol"]

\* (a|b|c), capture group n
Grp(n, ss) == <<Open(n), Alt(ss), Close(n)>>
WS1 == Run(SpaceChars, 1, TRUE)
WS0 == Run(SpaceChars, 0, TRUE)
DotPlus == Run(AnyCls, 1, TRUE)
DotStar == Run(AnyCls, 0, TRUE)

\* the words of a pattern separated by \s+
Words(ws) == [i \in 1..(2 * Len(ws) - 1) |->
                 IF i % 2 = 1 THEN Lit(ws[(i + 1) \div 2]) ELSE WS1]

MaxGroups == 4
NoCaps == [n \in 1..MaxGroups |-> <<0, 0>>]
Fail == [ok |-> FALSE, start |-> 0, end |-> 0, caps |-> NoCaps]

IsWordAt(s, i) == i >= 1 /\ i <= Len(s) /\ Ch(s, i) \in WordChars

LitAt(s, i, lit) == i + Len(lit) - 1 <= Len(s) /\ SubSeq(s, i, i + Len(lit) - 1) = lit

\* the class a repeating item repeats
ItemCls(it) ==
    CASE it.k = "run" -> it.cls
      [] it.k = "rep" -> it.a \cup it.b
      [] OTHER -> {}

\* the positions of s at which a run of cls characters has to stop
Breaks(s, cls) == {j \in 1..(Len(s) + 1) : j = Len(s) + 1 \/ Ch(s, j) \notin cls}

\* length of the longest run that starts at position i and stops at a break
RunLen(i, brk) == (CHOOSE j \in brk : j >= i /\ \A k \in brk : k >= i => k >= j) - i

\* the positions at which the item can end when it starts at position i
Nexts(it, s, i, brk) ==
    CASE it.k = "alt" -> {i + Len(it.a[x]) : x \in {y \in 1..Len(it.a) : LitAt(s, i, it.a[y])}}
      [] it.k = "run" -> {i + n : n \in it.min..RunLen(i, brk)}
      [] it.k = "one" -> IF i <= Len(s) /\ Ch(s, i) \in it.cls THEN {i + 1} ELSE {}
      [] it.k = "rep" ->
           {i} \cup {p \in (i + 2)..(i + RunLen(i, brk)) :
                        Ch(s, i) \in it.a /\ Ch(s, p - 1) \in it.b}
      [] it.k = "bolor" ->
           (IF i = 1 THEN {i} ELSE {})
           \cup (IF i <= Len(s) /\ Ch(s, i) \in it.cls THEN {i + 1} ELSE {})
      [] it.k = "wb" -> IF IsWordAt(s, i - 1) # IsWordAt(s, i) THEN {i} ELSE {}
      [] it.k = "eol" -> IF i = Len(s) + 1 THEN {i} ELSE {}
      [] OTHER -> {i}

\* the parentheses of a capture group match nothing themselves
Consumes(it) == it.k \notin {"open", "close"}

\* the items of alternative p that match something
Items(p) == SelectSeq(p, Consumes)

\* the index, among Items(p), of the first item after entry x of p
ItemAfter(p, x) == Cardinality({y \in 1..x : Consumes(p[y])}) + 1

RECURSIVE Reach(_, _, _, _)
\* Reach(q, k, s, R)[1] is R, the positions the engine can be at before item
\* k of q; the following entries are the positions before items k+1, k+2, ..
\* and, last, the positions at which a match can end
Reach(q, k, s, R) ==
    IF k > Len(q) \/ R = {} THEN [x \in 1..(Len(q) + 2 - k) |-> R]
    ELSE LET brk == Breaks(s, ItemCls(q[k]))
         IN  <<R>> \o Reach(q, k + 1, s, UNION {Nexts(q[k], s, i, brk) : i \in R})

RECURSIVE Viable(_, _, _, _, _)
\* with later[1] the positions from which the items k+1.. of q match, the
\* sequence whose k-th entry is the set of positions of at[k] from which the
\* items k.. of q match
Viable(q, k, s, at, later) ==
    IF k = 0 \/ later[1] = {} THEN later
    ELSE LET brk == Breaks(s, ItemCls(q[k]))
         IN  Viable(q, k - 1, s, at,
                    <<{i \in at[k] : Nexts(q[k], s, i, brk) \cap later[1] # {}}>> \o later)

SetMax(S) == CHOOSE a \in S : \A b \in S : b <= a
SetMin(S) == CHOOSE a \in S : \A b \in S : a <= b

\* the end the engine tries first among the ends that let the rest match
Preferred(it, s, i, ends) ==
    CASE it.k = "alt" ->
           LET first == SetMin({y \in 1..Len(it.a) :
                                   LitAt(s, i, it.a[y]) /\ (i + Len(it.a[y])) \in ends})
           IN  i + Len(it.a[first])
      [] it.k = "run" -> IF it.greedy THEN SetMax(ends) ELSE SetMin(ends)
      [] it.k = "rep" -> SetMax(ends)
      [] OTHER -> SetMin(ends)

RECURSIVE Walk(_, _, _, _, _)
\* the positions before the items k.. of q and after the last one, in the
\* match the engine finds from position i, which is viable
Walk(q, via, k, s, i) ==
    IF k > Len(q) THEN <<i>>
    ELSE <<i>> \o Walk(q, via, k + 1, s,
                       Preferred(q[k], s, i,
                                 Nexts(q[k], s, i, Breaks(s, ItemCls(q[k]))) \cap via[k + 1]))

\* the start positions, from position from on, of the matches of the items q
\* with the sets Walk needs; no start positions when q matches nowhere
Starts(q, s, from) ==
    LET at == Reach(q, 1, s, from..(Len(s) + 1))
    IN  IF at[Len(q) + 1] = {} THEN <<{}>> ELSE Viable(q, Len(q), s, at, <<at[Len(q) + 1]>>)

\* the capture groups of alternative p when its items matched at positions pos
Captures(p, pos) ==
    [n \in 1..MaxGroups |->
        IF \E x \in 1..Len(p) : p[x] = Open(n)
        THEN <<pos[ItemAfter(p, CHOOSE x \in 1..Len(p) : p[x] = Open(n))],
               pos[ItemAfter(p, CHOOSE x \in 1..Len(p) : p[x] = Close(n))]>>
        ELSE <<0, 0>>]

\* RegExp.prototype.exec on the lower-cased subject s: the leftmost match that
\* starts at position from or later, Fail when there is none
ExecFrom(pat, s, from) ==
    LET via == [a \in 1..Len(pat) |-> Starts(Items(pat[a]), s, from)]
        starts == UNION {via[a][1] : a \in 1..Len(pat)}
    IN  IF starts = {} THEN Fail
        ELSE LET i == SetMin(starts)
                 a == SetMin({x \in 1..Len(pat) : i \in via[x][1]})
                 pos == Walk(Items(pat[a]), via[a], 1, s, i)
             IN  [ok |-> TRUE, start |-> i, end |-> pos[Len(pos)],
                  caps |-> Captures(pat[a], pos)]

\* String.prototype.match for a pattern with the i flag (no g flag)
MatchI(pat, input) == ExecFrom(pat, ToLowerCase(input), 1)

\* RegExp.prototype.test for a pattern with the i flag
TestI(pat, input) == MatchI(pat, input).ok

\* match[n] of a match on input: "" stands for undefined and for the empty
\* capture alike (the code only tests captures for truthiness)
Group(input, m, n) ==
    IF n = 0 THEN SubSeq(input, m.start, m.end - 1)
    ELSE IF m.caps[n][2] = 0 THEN ""
    ELSE SubSeq(input, m.caps[n][1], m.caps[n][2] - 1)

(***************************************************************************)
(* JavaScript values that reach the fact rules: a fact value is whatever   *)
(* JSON.parse or the extractors produce.                                   *)
(***************************************************************************)
Str(s) == [t |-> "string", s |-> s]
Arr(items) == [t |-> "array", items |-> items]
Bool(b) == [t |-> "boolean", b |-> b]
Num(n) == [t |-> "number", n |-> n]
Null == [t |-> "null"]
Undefined == [t |-> "undefined"]

\* ToBoolean: what `!v` negates
Truthy(v) ==
    CASE v.t = "string" -> v.s # ""
      [] v.t = "array" -> TRUE
      [] v.t = "boolean" -> v.b
      [] v.t = "number" -> v.n # 0
      [] OTHER -> FALSE

DigitSeq == <<"0","1","2","3","4","5","6","7","8","9">>

RECURSIVE NatToString(_)
NatToString(n) ==
    IF n < 10 THEN DigitSeq[n + 1]
    ELSE NatToString(n \div 10) \o DigitSeq[(n % 10) + 1]

RECURSIVE JoinStrings(_, _)
\* Array.prototype.join
JoinStrings(items, sep) ==
    IF items = <<>> THEN ""
    ELSE IF Len(items) = 1 THEN items[1]
    ELSE items[1] \o sep \o JoinStrings(Tail(items), sep)

\* v.toString() for a truthy v
ToStringJS(v) ==
    CASE v.t = "string" -> v.s
      [] v.t = "array" -> JoinStrings(v.items, ",")
      [] v.t = "boolean" -> IF v.b THEN "true" ELSE "false"
      [] v.t = "number" -> NatToString(v.n)
      [] v.t = "undefined" -> "undefined"
      [] v.t = "null" -> "null"

(***************************************************************************)
(* MemoryWriteRules                                                        *)
(***************************************************************************)
FactTypeWords == <<"name", "interest", "preference", "favorite", "hobby", "habit",
                   "job", "work", "location", "city", "country", "age", "birthday",
                   "birthplace", "background", "story", "experience">>

factIndicators == <<
    << <<WB>> \o Grp(1, <<"my", "the">>)
         \o <<WS1, Open(2), Rep(LowerLetters, SpaceChars), Close(2)>>
         \o Grp(3, FactTypeWords) \o <<WS1, Lit("is"), WS1, Open(4), DotPlus, Close(4)>> >>,
    << <<WB>> \o Grp(1, <<"i'm", "im", "i'am", "iam", "my name's", "my names">>)
         \o <<WS1, Open(2), DotPlus, Close(2)>> >>,
    << <<WB, Lit("i"), WS1>>
         \o Grp(1, <<"like", "love", "enjoy", "prefer", "dislike", "hate">>)
         \o <<WS1, Open(2), DotPlus, Close(2)>> >>,
    << <<WB, Alt(<<"i'", "i">>), WS1>>
         \o Grp(1, <<"think", "believe", "feel", "want", "need", "have">>)
         \o <<WS1, Open(2), DotPlus, Close(2)>> >>,
    << <<WB, Lit("my"), WS1>> \o Grp(1, <<"opinion", "thought", "idea", "feeling">>)
         \o <<WS1, Lit("about")>> >>,
    << <<WB, Lit("i"), WS1>> \o Grp(1, <<"was born", "live", "work", "study">>)
         \o <<WS1, Lit("in")>> >>,
    << <<WB, Lit("my"), WS1>>
         \o Grp(1, <<"father", "mother", "brother", "sister", "friend", "family">>)
         \o <<WS1>> \o Grp(2, <<"is", "are", "was", "were">>) >>,
    << <<WB, Lit("i"), WS1>> \o Grp(1, <<"graduated", "studied", "went to school">>)
         \o <<WS1, Lit("at")>> >>,
    << <<WB, Lit("i"), WS1>> \o Grp(1, <<"speak", "know", "learn">>)
         \o <<WS1, Open(2), DotPlus, WS1, Lit("language"), Close(2)>> >>,
    << <<WB, Lit("my"), WS1>> \o Grp(1, <<"dream", "goal", "aspiration", "plan">>)
         \o <<WS1, Lit("is")>> >>
>>

rejectionPatterns == <<
    << <<WB>> \o Words(<<"you", "saw", "me">>) >>,
    << <<WB>> \o Words(<<"you", "remember", "me", "from">>) >>,
    << <<WB, Lit("yesterday"), DotStar, Lit("you"), DotStar, Lit("said")>> >>,
    << <<WB>> \o Words(<<"last", "time", "we", "talked">>) >>,
    << <<WB>> \o Words(<<"when", "we", "met", "before">>) >>,
    << <<WB>> \o Words(<<"you", "knew", "about">>) >>,
    << <<WB>> \o Words(<<"you", "were", "there", "when">>) >>,
    << <<WB>> \o Words(<<"i", "told", "you", "before">>) >>,
    << <<WB>> \o Words(<<"previously", "you", "mentioned">>) >>,
    << <<WB>> \o Words(<<"i", "shared", "with", "you">>) >>,
    << <<WB>> \o Words(<<"you", "observed", "that">>) >>,
    << <<WB>> \o Words(<<"you", "noticed", "that">>) >>,
    << <<WB>> \o Words(<<"you", "watched", "me">>) >>,
    << <<WB>> \o Words(<<"you", "met", "me">>) >>,
    << <<WB>> \o Words(<<"you", "saw", "that">>) >>,
    << <<WB, Lit("you"), WS1>>
         \o Grp(1, <<"observed", "saw", "witnessed", "noticed", "watched">>)
         \o <<WS1>> \o Grp(2, <<"me", "him", "her", "them">>) \o <<DotStar>> >>,
    << <<WB>> \o Grp(1, <<"you", "we">>) \o <<WS1>> \o Grp(2, <<"know", "knew">>)
         \o <<WS1>> \o Grp(3, <<"me", "each other", "eachother">>) >>
>>

emotionalKeywords == <<"feeling", "felt", "feelings", "emotion", "emotions", "mood",
                       "happy", "sad", "angry", "excited", "anxious", "depressed",
                       "stressed", "overwhelmed", "lonely", "frustrated", "upset">>

\* a regular expression /a|b|c/ tested on an already lower-cased string
IncludesAny(lower, ss) == \E i \in 1..Len(ss) : Includes(lower, ss[i])

getFactTypeFromMatch(match) ==
    LET lowerMatch == ToLowerCase(match)
    IN  IF Includes(lowerMatch, "name") THEN "name"
        ELSE IF IncludesAny(lowerMatch, <<"interest", "like", "love", "enjoy">>) THEN "interest"
        ELSE IF IncludesAny(lowerMatch, <<"preference", "prefer">>) THEN "preference"
        ELSE IF IncludesAny(lowerMatch, <<"job", "work", "occupation">>) THEN "occupation"
        ELSE IF IncludesAny(lowerMatch, <<"location", "city", "country", "live">>) THEN "location"
        ELSE IF Includes(lowerMatch, "age") THEN "age"
        ELSE "general"

\* no fact extracted (null)
NoFact == [type |-> "", value |-> "", original |-> "", isNull |-> TRUE]

RECURSIVE StripTrailingPunct(_)
\* factValue.replace(/[.,!?]+$/, '')
StripTrailingPunct(s) ==
    IF Len(s) > 0 /\ Ch(s, Len(s)) \in {".", ",", "!", "?"}
    THEN StripTrailingPunct(SubSeq(s, 1, Len(s) - 1)) ELSE s

extractFact(input, match) ==
    IF ~match.ok THEN NoFact
    ELSE
    LET g(n) == Group(input, match, n)
        picked ==
            IF g(4) # "" THEN [v |-> Trim(g(4)), ty |-> getFactTypeFromMatch(g(3))]
            ELSE IF g(3) # "" THEN [v |-> Trim(g(3)), ty |-> getFactTypeFromMatch(g(2))]
            ELSE IF g(2) # "" THEN [v |-> Trim(g(2)), ty |-> getFactTypeFromMatch(g(0))]
            ELSE IF g(1) # "" /\ g(1) # g(0)
                 THEN [v |-> Trim(g(1)), ty |-> getFactTypeFromMatch(g(0))]
            ELSE [v |-> "", ty |-> "general"]
    IN  IF picked.v # ""
        THEN [type |-> picked.ty, value |-> StripTrailingPunct(picked.v),
              original |-> input, isNull |-> FALSE]
        ELSE NoFact

containsEmotionalContent(input) == IncludesAny(ToLowerCase(input), emotionalKeywords)

\* some rejection pattern tests true on the input
MatchesRejection(input) ==
    \E i \in 1..Len(rejectionPatterns) : TestI(rejectionPatterns[i], input)

\* index of the first fact pattern that matches, 0 when none does
FirstFactPattern(input) ==
    IF \E i \in 1..Len(factIndicators) : TestI(factIndicators[i], input)
    THEN CHOOSE i \in 1..Len(factIndicators) :
            /\ TestI(factIndicators[i], input)
            /\ \A j \in 1..(i - 1) : ~TestI(factIndicators[j], input)
    ELSE 0

Decision(store, type, fact) == [shouldStore |-> store, type |-> type, fact |-> fact]

EmotionalOrAmbiguous(input) ==
    IF containsEmotionalContent(input)
    THEN Decision(FALSE, "emotional", NoFact)
    ELSE Decision(FALSE, "ambiguous", NoFact)

\* variant: the fact patterns are consulted before the rejection patterns
shouldStoreFactsFirst(input) ==
    LET p == FirstFactPattern(input)
        extractedFact == IF p = 0 THEN NoFact
                         ELSE extractFact(input, MatchI(factIndicators[p], input))
    IN  IF ~extractedFact.isNull
        THEN IF containsEmotionalContent(extractedFact.value)
             THEN Decision(FALSE, "emotional", NoFact)
             ELSE Decision(TRUE, "fact", extractedFact)
        ELSE IF MatchesRejection(input) THEN Decision(FALSE, "rejection_pattern", NoFact)
        ELSE EmotionalOrAmbiguous(input)

\* variant: an extracted fact is stored whatever its value contains
shouldStoreEveryFact(input) ==
    IF MatchesRejection(input) THEN Decision(FALSE, "rejection_pattern", NoFact)
    ELSE
    LET p == FirstFactPattern(input)
    IN  IF p = 0 THEN EmotionalOrAmbiguous(input)
        ELSE LET extractedFact == extractFact(input, MatchI(factIndicators[p], input))
             IN  IF extractedFact.isNull THEN EmotionalOrAmbiguous(input)
                 ELSE Decision(TRUE, "fact", extractedFact)

shouldStoreInLongTermMemory(input) ==
    IF MatchesRejection(input) THEN Decision(FALSE, "rejection_pattern", NoFact)
    ELSE
    LET p == FirstFactPattern(input)
    IN  IF p = 0 THEN EmotionalOrAmbiguous(input)
        ELSE LET extractedFact == extractFact(input, MatchI(factIndicators[p], input))
             IN  IF extractedFact.isNull THEN EmotionalOrAmbiguous(input)
                 ELSE IF containsEmotionalContent(extractedFact.value)
                 THEN Decision(FALSE, "emotional", NoFact)
                 ELSE Decision(TRUE, "fact", extractedFact)

selfReferentialPatterns == <<
    << <<Lit("you"), WS1, Alt(<<"know", "knew", "remember", "recall", "understand">>)>> >>,
    << <<Lit("you"), WS1, Alt(<<"saw", "witnessed", "observed">>)>> >>,
    << <<Lit("we"), WS1, Alt(<<"met", "talked", "spoke", "interacted">>)>> >>,
    << <<Lit("previous")>> >>,
    << <<Lit("earlier")>> >>,
    << <<Lit("before")>> >>,
    << <<Lit("yesterday")>> >>,
    << <<Lit("last"), DotStar, Lit("time")>> >> >>

\* selfReferentialPatterns.some(pattern => pattern.test(fact))
isSelfReferential(fact) ==
    \E i \in 1..Len(selfReferentialPatterns) : TestI(selfReferentialPatterns[i], fact)

futurePatterns == <<
    <<Words(<<"will", "be">>)>>,
    <<Words(<<"going", "to", "be">>)>>,
    <<Words(<<"will", "happen">>)>>,
    <<Words(<<"in", "the", "future">>)>> >>

\* futurePatterns.some(pattern => pattern.test(fact))
hasTemporalIssues(fact) ==
    \E i \in 1..Len(futurePatterns) : TestI(futurePatterns[i], fact)

MinFactLen == 2
MaxFactLen == 200

\* fact is a record with a value field, or Null / Undefined for no fact at all
validateMemoryFact(fact) ==
    IF fact.t # "fact" \/ ~Truthy(fact.value)
    THEN [isValid |-> FALSE, reason |-> "Fact is empty or invalid"]
    ELSE
    LET factStr == ToLowerCase(ToStringJS(fact.value))
    IN  IF Len(factStr) < MinFactLen
        THEN [isValid |-> FALSE, reason |-> "Fact is too short"]
        ELSE IF Len(factStr) > MaxFactLen
        THEN [isValid |-> FALSE, reason |-> "Fact is too long"]
        ELSE IF isSelfReferential(factStr)
        THEN [isValid |-> FALSE, reason |-> "Fact contains self-referential or impossible claim"]
        ELSE IF hasTemporalIssues(factStr)
        THEN [isValid |-> FALSE, reason |-> "Fact contains temporal inconsistency"]
        ELSE [isValid |-> TRUE, reason |-> "Fact appears valid"]

\* { type, value } as passed to validateMemoryFact
FactObj(type, value) == [t |-> "fact", type |-> type, value |-> value]

\* what processInputForMemory returns
Processing(longTermAction, reason, fact, episodicAction, decision) ==
    [longTermAction |-> longTermAction, longTermReason |-> reason, fact |-> fact,
     episodicAction |-> episodicAction, decisionDetails |-> decision]

\* the action taken for an input that is not a storable fact; the reason
\* returned is the decision's, which its type determines
NonFactProcessing(decision) ==
    Processing(IF decision.type = "rejection_pattern" THEN "reject" ELSE "none",
               decision.type, NoFact,
               IF decision.type = "emotional" THEN "summarize"
               ELSE IF decision.type = "ambiguous" THEN "evaluate" ELSE "none",
               decision)

\* the result for a storable fact, given what validateMemoryFact said of it
ValidatedProcessing(decision, validation) ==
    Processing(IF validation.isValid THEN "store" ELSE "reject",
               validation.reason,
               IF validation.isValid THEN decision.fact ELSE NoFact,
               "consider_summary", decision)

\* processInputForMemory once shouldStoreInLongTermMemory has decided
ProcessDecision(decision) ==
    IF decision.shouldStore /\ ~decision.fact.isNull
    THEN ValidatedProcessing(decision,
            validateMemoryFact(FactObj(decision.fact.type, Str(decision.fact.value))))
    ELSE NonFactProcessing(decision)

\* variant: the extracted fact is stored without being validated
processInputForMemoryUnvalidated(input) ==
    CHOOSE processing \in
        {IF decision.shouldStore /\ ~decision.fact.isNull
         THEN ValidatedProcessing(decision,
                                  [isValid |-> TRUE, reason |-> "Fact appears valid"])
         ELSE NonFactProcessing(decision) :
            decision \in {shouldStoreInLongTermMemory(input)}} : TRUE

\* const decision = this.shouldStoreInLongTermMemory(input), then the result
processInputForMemory(input) ==
    CHOOSE processing \in
        {ProcessDecision(decision) :
            decision \in {shouldStoreInLongTermMemory(input)}} : TRUE

(***************************************************************************)
(* Persona profile (persona.json, as the test-suite states it)             *)
(***************************************************************************)
persona == [
    name |-> "Astra",
    identity |-> "A thoughtful, emotionally intelligent companion",
    never_claims |-> <<"physical presence", "seeing the user",
                       "remembering things not explicitly told">>,
    forbidden_outputs |-> <<"I am an AI model", "I watched you",
                            "You told me yesterday (if not stored)">> ]

(***************************************************************************)
(* IdentityValidator                                                       *)
(***************************************************************************)
Violation(type, detail) == [type |-> type, detail |-> detail]

\* what a sub-check returns; Thrown when it raises instead
RuleResult(violations) ==
    [threw |-> FALSE, isValid |-> violations = <<>>, violations |-> violations]
Thrown == [threw |-> TRUE, isValid |-> FALSE, violations |-> <<>>]

\* the violation v when cond holds, nothing otherwise
When(cond, v) == IF cond THEN <<v>> ELSE <<>>

validateIdentityAlignment(response) ==
    IF response.t # "string" THEN Thrown
    ELSE
    LET responseLower == ToLowerCase(response.s)
    IN  RuleResult(
          When(\/ Includes(responseLower, "i am an ai")
               \/ Includes(responseLower, "i am a language model"),
               Violation("identity_mismatch", ""))
          \o
          When(\/ Includes(responseLower, "i can see")
               \/ Includes(responseLower, "i can observe")
               \/ Includes(responseLower, "i watched")
               \/ Includes(responseLower, "i witnessed"),
               Violation("capability_mismatch", "")))

isCommonPronoun(word) ==
    ToLowerCase(word) \in {"me", "my", "mine", "i", "you", "your", "yours", "we", "our", "us"}

NonWordChars == AnyCls \ WordChars

namePattern == <<
    <<BolOr(NonWordChars), Alt(<<"i'm", "im">>), WS1,
      Open(1), Run(LowerLetters, 1, TRUE), Close(1)>>,
    <<BolOr(NonWordChars), Alt(<<"i'", "i">>), WS0, Alt(<<"am", "call", "name", "go by">>), WS1,
      Open(2), Run(LowerLetters, 1, TRUE), Close(2)>>,
    <<BolOr(NonWordChars), Lit("my"), WS0, Lit("name"), WS0, Lit("is"), WS1,
      Open(3), Run(LowerLetters, 1, TRUE), Close(3)>> >>

RECURSIVE NameViolationsFrom(_, _)
\* the while loop over namePattern.exec (g flag: resumes at the end of the last match)
NameViolationsFrom(responseLower, from) ==
    LET match == ExecFrom(namePattern, responseLower, from)
    IN  IF ~match.ok THEN <<>>
        ELSE
        LET mentionedName ==
                IF Group(responseLower, match, 1) # "" THEN Group(responseLower, match, 1)
                ELSE IF Group(responseLower, match, 2) # "" THEN Group(responseLower, match, 2)
                ELSE Group(responseLower, match, 3)
        IN  When(/\ mentionedName # ""
                 /\ mentionedName # ToLowerCase(persona.name)
                 /\ ~isCommonPronoun(mentionedName),
                 Violation("name_inconsistency", mentionedName))
            \o NameViolationsFrom(responseLower, match.end)

validateNameConsistency(response) ==
    IF response.t # "string" THEN Thrown
    ELSE RuleResult(NameViolationsFrom(ToLowerCase(response.s), 1))

validateOriginClaims(response) ==
    IF response.t # "string" THEN Thrown
    ELSE
    LET responseLower == ToLowerCase(response.s)
    IN  RuleResult(
          When(/\ Includes(responseLower, "i am")
               /\ Includes(responseLower, "here")
               /\ Includes(responseLower, "in person"),
               Violation("physical_presence_claim", ""))
          \o
          When(\/ Includes(responseLower, "i see")
               \/ Includes(responseLower, "i hear")
               \/ Includes(responseLower, "i notice you")
               \/ Includes(responseLower, "i observe you"),
               Violation("sensory_capability_claim", ""))
          \o
          When(\/ Includes(responseLower, "yesterday")
               \/ Includes(responseLower, "last time")
               \/ Includes(responseLower, "before we talked"),
               Violation("temporal_continuity_claim", "")))

memoryClaimPatterns == <<"do you remember when", "earlier you said", "previously mentioned",
                         "last time we talked", "i told you about", "i remember when you",
                         "i recall when you", "i remember you saying",
                         "i remember you telling me", "i remember you mentioning">>

\* the memory argument: an object with or without a longTerm profile
\* (keys: the set of its keys); Undefined takes the default {}; Null is null
MemoryObj(hasLongTerm, keys) == [t |-> "object", hasLongTerm |-> hasLongTerm, keys |-> keys]

RECURSIVE MemoryClaimViolations(_, _)
MemoryClaimViolations(responseLower, i) ==
    IF i > Len(memoryClaimPatterns) THEN <<>>
    ELSE When(Includes(responseLower, memoryClaimPatterns[i]),
              Violation("unverified_memory_claim", ""))
         \o MemoryClaimViolations(responseLower, i + 1)

validateMemoryClaims(response, memoryArg) ==
    LET memory == IF memoryArg.t = "undefined" THEN MemoryObj(FALSE, {}) ELSE memoryArg
    IN  IF response.t # "string" THEN Thrown
        ELSE IF memory.t = "null" THEN Thrown
        ELSE IF memory.hasLongTerm
        THEN RuleResult(MemoryClaimViolations(ToLowerCase(response.s), 1))
        ELSE RuleResult(<<>>)

RECURSIVE PhraseViolations(_, _, _, _)
\* one violation of the given type per listed phrase the reply contains
PhraseViolations(responseLower, phrases, type, i) ==
    IF i > Len(phrases) THEN <<>>
    ELSE When(Includes(responseLower, ToLowerCase(phrases[i])), Violation(type, phrases[i]))
         \o PhraseViolations(responseLower, phrases, type, i + 1)

\* variant: the configured phrases are compared as written, not in lower case
validateForbiddenAsWritten(response) ==
    IF response.t # "string" THEN Thrown
    ELSE
    LET responseLower == ToLowerCase(response.s)
        found(phrases, type) ==
            LET hit == {i \in 1..Len(phrases) : Includes(responseLower, phrases[i])}
            IN  [i \in 1..Cardinality(hit) |->
                    Violation(type, phrases[CHOOSE j \in hit :
                                              Cardinality({k \in hit : k < j}) = i - 1])]
    IN  RuleResult(found(persona.forbidden_outputs, "forbidden_statement")
                   \o found(persona.never_claims, "never_claim_violation"))

validateForbiddenStatements(response) ==
    IF response.t # "string" THEN Thrown
    ELSE
    LET responseLower == ToLowerCase(response.s)
    IN  RuleResult(
          PhraseViolations(responseLower, persona.forbidden_outputs, "forbidden_statement", 1)
          \o PhraseViolations(responseLower, persona.never_claims, "never_claim_violation", 1))

RuleNames == <<"identity_alignment", "name_consistency", "origin_claims",
               "memory_claims", "forbidden_statements">>

\* rule.validate(response, memory) of the rule at position i of validationRules
RunRule(i, response, memory) ==
    CASE i = 1 -> validateIdentityAlignment(response)
      [] i = 2 -> validateNameConsistency(response)
      [] i = 3 -> validateOriginClaims(response)
      [] i = 4 -> validateMemoryClaims(response, memory)
      [] i = 5 -> validateForbiddenStatements(response)

EmptyReport == [overallValid |-> TRUE, totalViolations |-> 0,
                violationsByType |-> <<>>, ruleResults |-> <<>>]

\* violationsByType is kept as the sequence of violations pushed so far; the
\* object grouped by type is ByType below
RecordRule(results, name, out) ==
    IF out.threw
    THEN [results EXCEPT
            !.ruleResults = Append(@, [name |-> name, isValid |-> FALSE,
                 violations |-> <<Violation("validation_error", name)>>]),
            !.overallValid = FALSE]
    ELSE IF ~out.isValid
    THEN [results EXCEPT
            !.ruleResults = Append(@, [name |-> name, isValid |-> FALSE,
                                       violations |-> out.violations]),
            !.overallValid = FALSE,
            !.totalViolations = @ + Len(out.violations),
            !.violationsByType = @ \o out.violations]
    ELSE [results EXCEPT
            !.ruleResults = Append(@, [name |-> name, isValid |-> TRUE,
                                       violations |-> <<>>])]

RECURSIVE ValidateFrom(_, _, _, _)
ValidateFrom(i, response, memory, results) ==
    IF i > Len(RuleNames) THEN results
    ELSE ValidateFrom(i + 1, response, memory,
                      RecordRule(results, RuleNames[i], RunRule(i, response, memory)))

\* IdentityValidator.validate(response, memory)
validate(response, memory) == ValidateFrom(1, response, memory, EmptyReport)

\* the keys of report.violationsByType
TypesOf(report) == {report.violationsByType[i].type : i \in DOMAIN report.violationsByType}

\* report.violationsByType[type]
ByType(report, type) == SelectSeq(report.violationsByType, LAMBDA v : v.type = type)

\* a correction that looks for identity_mismatch before forbidden_statement
generateCorrectionMismatchFirst(originalResponse, validationResults) ==
    IF validationResults.overallValid THEN originalResponse
    ELSE IF "identity_mismatch" \in TypesOf(validationResults)
    THEN "Hello! I'm " \o persona.name \o ", " \o persona.identity
         \o ". How can I assist you today?"
    ELSE IF "forbidden_statement" \in TypesOf(validationResults)
    THEN "I'm " \o persona.name \o ", " \o persona.identity
         \o ". I'm here to have a helpful conversation."
    ELSE "I'm " \o persona.name \o ", " \o persona.identity
         \o ". I'm here to listen and help. " \o originalResponse

generateCorrection(originalResponse, validationResults) ==
    IF validationResults.overallValid THEN originalResponse
    ELSE IF "forbidden_statement" \in TypesOf(validationResults)
    THEN "I'm " \o persona.name \o ", " \o persona.identity
         \o ". I'm here to have a helpful conversation."
    ELSE IF "identity_mismatch" \in TypesOf(validationResults)
    THEN "Hello! I'm " \o persona.name \o ", " \o persona.identity
         \o ". How can I assist you today?"
    ELSE "I'm " \o persona.name \o ", " \o persona.identity
         \o ". I'm here to listen and help. " \o originalResponse

(***************************************************************************)
(* PersonaManager                                                          *)
(***************************************************************************)
validateResponse(response) ==
    LET lower == ToLowerCase(response)
        violations ==
            PhraseViolations(lower, persona.forbidden_outputs, "forbidden_output", 1)
            \o PhraseViolations(lower, persona.never_claims, "never_claim_violation", 1)
    IN  [isValid |-> violations = <<>>, violations |-> violations]

(***************************************************************************)
(* State                                                                   *)
(***************************************************************************)
VARIABLES
    rulesCall,    \* a call of a MemoryWriteRules method: its name and argument
    rulesRet,     \* what that call returned
    valCall,      \* a call of IdentityValidator.validate: reply and memory
    valRet,       \* the report it returned
    redisLists,   \* Redis lists: key -> messages, most recently pushed first
    redisSets,    \* Redis sets: key -> members
    profiles,     \* user_profiles: user_id -> profile_data
    req,          \* the POST /api/conversation requests being served
    orch,         \* the ConversationOrchestrator.processConversation call
    clock,        \* Date.now(), as a count of the ids minted so far
    ghost,        \* history of the run, for stating properties only
    mem           \* the MemoryManager calls made directly by a caller

vars == <<rulesCall, rulesRet, valCall, valRet, redisLists, redisSets, profiles,
          req, orch, clock, ghost, mem>>

rulesVars == <<rulesCall, rulesRet>>
valVars == <<valCall, valRet>>
storeVars == <<redisLists, redisSets, profiles>>
pipeVars == <<req, orch, clock, ghost, mem>>

NotReturned == [done |-> FALSE]
NoCall == [op |-> "none"]

(***************************************************************************)
(* Inputs                                                                  *)
(***************************************************************************)
\* an utterance is at most MaxPhrases of these phrases, separated by blanks
MaxPhrases == 2

UtterancePhrases == <<
    "You saw me yesterday",
    "You know me well.",
    "My name is John.",
    "my favorite hobby is feeling the mood",
    "I'm feeling sad",
    "I like hiking!",
    "I feel really happy today",
    "I live in Boston",
    "What is your name?",
    "I am so stressed" >>

RECURSIVE PhraseTexts(_, _)
\* the texts made of at most n phrases of the pool
PhraseTexts(pool, n) ==
    IF n = 0 THEN {""}
    ELSE LET shorter == PhraseTexts(pool, n - 1)
         IN  shorter \cup
             {IF t = "" THEN pool[i] ELSE t \o " " \o pool[i] :
                  t \in shorter, i \in 1..Len(pool)}

Utterances == PhraseTexts(UtterancePhrases, MaxPhrases)

RECURSIVE Repeat(_, _)
\* s repeated n times
Repeat(s, n) ==
    IF n = 0 THEN ""
    ELSE IF n % 2 = 0 THEN LET half == Repeat(s, n \div 2) IN half \o half
    ELSE s \o Repeat(s, n - 1)

\* the values validateMemoryFact is given: strings, lists (the extractors and
\* JSON.parse produce both), other JSON scalars, and a missing value
FactValues ==
    {Str(s) : s \in {"", "A", "Al", "Alice", "John", "Boston", "false", "0",
                     "you know", "You Remember", "we met", "we  talked", "wetalked",
                     "previously", "Earlier on", "before", "YESTERDAY", "last good time",
                     "it will be fine", "going to be rich", "will happen",
                     "in the future", "willbe", "the last", "time at last",
                     Repeat("a", MaxFactLen - 1), Repeat("a", MaxFactLen),
                     Repeat("a", MaxFactLen + 1),
                     "we met " \o Repeat("ab", MaxFactLen)}}
    \cup {Arr(<<>>), Arr(<<"a">>), Arr(<<"a", "b">>), Arr(<<"coding", "reading">>),
          Arr(<<"we", "met">>), Arr(<<"we met">>), Arr(<<"will", "be">>),
          Arr(<<"hiking", "going to be late">>)}
    \cup {Bool(TRUE), Bool(FALSE), Num(0), Num(7), Num(42), Null, Undefined}

FactTypes == {"name", "interests"}

FactArgs == {FactObj(ty, v) : ty \in FactTypes, v \in FactValues} \cup {Null, Undefined}

(***************************************************************************)
(* The rule engine called on its own (as the unit tests call it)           *)
(***************************************************************************)
PipelineIdle ==
    /\ redisLists = <<>>
    /\ redisSets = <<>>
    /\ profiles = <<>>
    /\ req = <<>>
    /\ orch = NoCall
    /\ clock = 0
    /\ ghost = {}
    /\ mem = <<>>

\* utterances whose extracted fact validateMemoryFact turns down
UnstorableDeclarations ==
    {"I think it will be fine", "I like what we talked about", "I'm J"}

ProcessedInputs == Utterances \cup UnstorableDeclarations

RulesInit ==
    /\ rulesCall \in {[op |-> "shouldStoreInLongTermMemory", input |-> u] : u \in Utterances}
                     \cup {[op |-> "validateMemoryFact", fact |-> f] : f \in FactArgs}
                     \cup {[op |-> "processInputForMemory", input |-> u] : u \in ProcessedInputs}
    /\ rulesRet = NotReturned
    /\ valCall = NoCall
    /\ valRet = NotReturned
    /\ PipelineIdle

CallShouldStore ==
    /\ rulesCall.op = "shouldStoreInLongTermMemory"
    /\ ~rulesRet.done
    /\ rulesRet' = [done |-> TRUE, decision |-> shouldStoreInLongTermMemory(rulesCall.input)]
    /\ UNCHANGED <<rulesCall, valVars, storeVars, pipeVars>>

CallValidateFact ==
    /\ rulesCall.op = "validateMemoryFact"
    /\ ~rulesRet.done
    /\ rulesRet' = [done |-> TRUE, validation |-> validateMemoryFact(rulesCall.fact)]
    /\ UNCHANGED <<rulesCall, valVars, storeVars, pipeVars>>

CallProcessInput ==
    /\ rulesCall.op = "processInputForMemory"
    /\ ~rulesRet.done
    /\ rulesRet' = [done |-> TRUE, processing |-> processInputForMemory(rulesCall.input)]
    /\ UNCHANGED <<rulesCall, valVars, storeVars, pipeVars>>

RulesNext == CallShouldStore \/ CallValidateFact \/ CallProcessInput

SpecRules == RulesInit /\ [][RulesNext]_vars

(***************************************************************************)
(* The validator called on its own (as the unit tests call it)             *)
(***************************************************************************)
ReplyPhrases == <<
    "I am an AI model developed by Google.",
    "i am an ai MODEL",
    "I WATCHED YOU",
    "You told me yesterday (if not stored)",
    "my Physical Presence",
    "seeing the user",
    "Hello! I'm Bob.",
    "I remember when you said so",
    "I am a language model",
    "I remember you telling me your name" >>

\* the reply argument: a text, or no string at all
Replies == {Str(t) : t \in PhraseTexts(ReplyPhrases, MaxPhrases)} \cup {Undefined}

\* the memory argument: omitted, null, or an object with or without a profile
Memories == {Undefined, Null, MemoryObj(FALSE, {}), MemoryObj(TRUE, {}),
             MemoryObj(TRUE, {"name"})}

ValidatorInit ==
    /\ valCall \in {[op |-> "validate", response |-> r, memory |-> m] :
                       r \in Replies, m \in Memories}
    /\ valRet = NotReturned
    /\ rulesCall = NoCall
    /\ rulesRet = NotReturned
    /\ PipelineIdle

CallValidate ==
    /\ valCall.op = "validate"
    /\ ~valRet.done
    /\ valRet' = [done |-> TRUE, report |-> validate(valCall.response, valCall.memory)]
    /\ UNCHANGED <<valCall, rulesVars, storeVars, pipeVars>>

\* generateCorrection(response, report) called with the report validate
\* returned; a reply that is no string is spelled out by the template
CallGenerateCorrection ==
    /\ valCall.op = "validate"
    /\ valRet.done
    /\ "correction" \notin DOMAIN valRet
    /\ valRet' = [done |-> TRUE, report |-> valRet.report,
                  correction |-> generateCorrection(ToStringJS(valCall.response),
                                                    valRet.report)]
    /\ UNCHANGED <<valCall, rulesVars, storeVars, pipeVars>>

ValidatorNext == CallValidate \/ CallGenerateCorrection

SpecValidator == ValidatorInit /\ [][ValidatorNext]_vars

(***************************************************************************)
(* The stores: Redis lists of JSON messages and the user_profiles table    *)
(***************************************************************************)
\* config.memory.shortTermSize and config.redis.sessionExpiry (defaults)
ShortTermSize == 10
SessionExpiry == 3600

\* a key without expiry
NoTtl == 0 - 1

ShortTermKey(userId, sessionId) == "shortterm:" \o userId \o ":" \o sessionId

\* { role, text } as orchestrateConversation stores it
Message(role, text) == [role |-> role, text |-> text]

\* f with key k set to v
Put(f, k, v) == [x \in DOMAIN f \cup {k} |-> IF x = k THEN v ELSE f[x]]

\* f without key k
Drop(f, k) == [x \in DOMAIN f \ {k} |-> f[x]]

\* LRANGE key 0 -1
lRange(lists, key) == IF key \in DOMAIN lists THEN lists[key].items ELSE <<>>

\* LPUSH key m: the new message goes to the head
lPush(lists, key, m) ==
    IF key \in DOMAIN lists
    THEN [lists EXCEPT ![key].items = <<m>> \o @]
    ELSE Put(lists, key, [items |-> <<m>>, ttl |-> NoTtl])

\* a trim that keeps the stop+1 elements at the tail of the list
lTrimKeepingTail(lists, key, stop) ==
    IF key \notin DOMAIN lists THEN lists
    ELSE LET items == lists[key].items
         IN  IF Len(items) <= stop + 1 THEN lists
             ELSE [lists EXCEPT ![key].items =
                        SubSeq(items, Len(items) - stop, Len(items))]

\* LTRIM key 0 stop: keeps the elements 0..stop; an emptied list is removed
lTrim(lists, key, stop) ==
    IF key \notin DOMAIN lists THEN lists
    ELSE LET kept == SubSeq(lists[key].items, 1,
                            IF Len(lists[key].items) < stop + 1
                            THEN Len(lists[key].items) ELSE stop + 1)
         IN  IF kept = <<>> THEN Drop(lists, key)
             ELSE [lists EXCEPT ![key].items = kept]

\* EXPIRE key seconds
expire(lists, key, seconds) ==
    IF key \in DOMAIN lists THEN [lists EXCEPT ![key].ttl = seconds] ELSE lists

\* Array.prototype.slice(-n)
SliceLast(items, n) ==
    IF Len(items) <= n THEN items ELSE SubSeq(items, Len(items) - n + 1, Len(items))

\* a read that answers a failed command with a remembered turn
getShortTermMemoryCached(lists, userId, sessionId, ok) ==
    IF ok THEN SliceLast(lRange(lists, ShortTermKey(userId, sessionId)), ShortTermSize)
    ELSE <<Message("user", "Hi there")>>

\* getShortTermMemory: [] when the command fails
getShortTermMemory(lists, userId, sessionId, ok) ==
    IF ok THEN SliceLast(lRange(lists, ShortTermKey(userId, sessionId)), ShortTermSize)
    ELSE <<>>

\* getLongTermMemory / getUserProfile: {} when there is no row or the query fails
getLongTermMemory(table, userId, ok) ==
    IF ok /\ userId \in DOMAIN table THEN table[userId] ELSE <<>>

\* a merge that appends to a list already in the profile
MergeProfileAppending(existingProfile, filteredFacts) ==
    [k \in DOMAIN existingProfile \cup DOMAIN filteredFacts |->
        IF k \notin DOMAIN filteredFacts THEN existingProfile[k]
        ELSE IF k \in DOMAIN existingProfile
                /\ existingProfile[k].t = "array" /\ filteredFacts[k].t = "array"
        THEN Arr(existingProfile[k].items \o filteredFacts[k].items)
        ELSE filteredFacts[k]]

\* { ...existingProfile, ...filteredFacts }
MergeProfile(existingProfile, filteredFacts) ==
    [k \in DOMAIN existingProfile \cup DOMAIN filteredFacts |->
        IF k \in DOMAIN filteredFacts THEN filteredFacts[k] ELSE existingProfile[k]]

\* every fact kept, whatever validateMemoryFact says
FilterFactsUnfiltered(facts) == facts

\* a filter that only turns down facts without a value
FilterFactsWithValue(facts) ==
    [k \in {x \in DOMAIN facts : Truthy(facts[x])} |-> facts[k]]

\* updateLongTermMemory: the facts validateMemoryFact accepts
FilterFacts(facts) ==
    [k \in {x \in DOMAIN facts : validateMemoryFact(FactObj(x, facts[x])).isValid} |-> facts[k]]

(***************************************************************************)
(* The generative backend, as LLMStrategy uses it                          *)
(***************************************************************************)
\* what the backend does with one call: it delivers a text or fails
BackendError == [ok |-> FALSE, text |-> ""]
BackendText(t) == [ok |-> TRUE, text |-> t]

\* result of an async function: a value or a rejection
Resolved(v) == [threw |-> FALSE, value |-> v]
Rejected == [threw |-> TRUE, value |-> ""]

\* generateContent: the contents array sent to the model: the system prompt
\* as a first user message, the history in the order it was passed, then
\* the current user message
contents(systemPrompt, history, userInput) ==
    <<Message("user", systemPrompt)>>
        \o [j \in 1..Len(history) |->
                Message(IF history[j].role = "user" THEN "user" ELSE "model",
                        history[j].text)]
        \o <<Message("user", userInput)>>

\* a generateContent that answers a backend failure with an empty text
generateContentSwallowing(hasHistory, backend) ==
    IF ~hasHistory THEN Rejected
    ELSE IF backend.ok THEN Resolved(Trim(backend.text))
    ELSE Resolved("")

\* generateContent(systemPrompt, history, userInput): history.forEach runs
\* before the try block, so a call without a history array is rejected
\* before the backend is asked; the delivered text is trimmed
generateContent(hasHistory, backend) ==
    IF ~hasHistory THEN Rejected
    ELSE IF backend.ok THEN Resolved(Trim(backend.text))
    ELSE Rejected

\* classifyTone: one of the three tones, neutral for anything else or a failure
classifyTone(backend) ==
    IF backend.ok /\ ToLowerCase(Trim(backend.text)) \in {"neutral", "emotional", "playful"}
    THEN ToLowerCase(Trim(backend.text))
    ELSE "neutral"

\* facts the backend may report for a message: each is stated in the message
ExtractionPool == {
    [key |-> "name", value |-> Str("John"), cue |-> "John"],
    [key |-> "interests", value |-> Arr(<<"hiking">>), cue |-> "hiking"],
    [key |-> "seen", value |-> Str("yesterday"), cue |-> "yesterday"] }

GroundedFacts(message) ==
    LET stated == {c \in ExtractionPool : Includes(message, c.cue)}
    IN  {[k \in {c.key : c \in chosen} |-> (CHOOSE c \in chosen : c.key = k).value] :
            chosen \in SUBSET stated}

\* replies of the backend to the extraction prompt
ExtractionReplies(message) ==
    {[ok |-> TRUE, parses |-> TRUE, facts |-> f] : f \in GroundedFacts(message)}
    \cup {[ok |-> TRUE, parses |-> FALSE, facts |-> <<>>],
          [ok |-> FALSE, parses |-> FALSE, facts |-> <<>>]}

\* extractFactsFromMessage: the parsed JSON object; a backend failure or an
\* unparsable reply ends in the catch block, whose second statement reads
\* the block-scoped text and throws
extractFactsFromMessage(reply) ==
    IF reply.ok /\ reply.parses THEN Resolved(reply.facts) ELSE Rejected

(***************************************************************************)
(* POST /api/conversation                                                  *)
(***************************************************************************)
MaxRequests == 1

RequestIds == 1..MaxRequests
UserIds == {"u1"}
EndpointUtterances == {
    "You saw me yesterday My name is John.",
    "I like hiking!",
    "What is your name?" }

\* 2000 and 2001 characters
Text10 == "aaaaaaaaaa"
Text100 == Text10 \o Text10 \o Text10 \o Text10 \o Text10
           \o Text10 \o Text10 \o Text10 \o Text10 \o Text10
Text1000 == Text100 \o Text100 \o Text100 \o Text100 \o Text100
            \o Text100 \o Text100 \o Text100 \o Text100 \o Text100
LongestInput == Text1000 \o Text1000
TooLongInput == LongestInput \o "a"

\* fields of the request body; "" is a missing field
\* an id as the frontend makes it: user_<uuid>
FrontendUserId == "user_7"
BodyUserIds == UserIds \cup {FrontendUserId, ""}
BodyTexts == EndpointUtterances \cup {"", TooLongInput}
BodySessionIds == {"", "s1"}

BackendReplies == {BackendText("Hello, I'm Astra."), BackendText(" I am an AI model. "),
                   BackendError}
ToneReplies == {BackendText("neutral"), BackendText(" Emotional"), BackendText("happy"),
                BackendError}

NoResponse == [sent |-> FALSE, status |-> 0, success |-> "absent", text |-> "",
               emotionalContext |-> "", sessionId |-> "", details |-> "", error |-> ""]
BadRequest == [NoResponse EXCEPT !.sent = TRUE, !.status = 400,
                                 !.error = "userId and inputText required"]
Failure(details) ==
    [NoResponse EXCEPT !.sent = TRUE, !.status = 500, !.success = "false",
                       !.error = "AI processing failed", !.details = details]
Success(text, emotion, sessionId) ==
    [NoResponse EXCEPT !.sent = TRUE, !.status = 200, !.success = "true", !.text = text,
                       !.emotionalContext = emotion, !.sessionId = sessionId]

FreshRequest == [pc |-> "new", bg |-> "idle", userId |-> "", inputText |-> "",
                 sessionId |-> "", history |-> <<>>, userProfile |-> <<>>, emotion |-> "",
                 text |-> "", warned |-> FALSE, timer |-> "unset", res |-> NoResponse,
                 responses |-> 0,
                 facts |-> <<>>, existingProfile |-> <<>>,
                 loaded |-> [done |-> FALSE]]

\* sess_<userId>_<Date.now()>_<random>: the time and the random suffix together
\* are a value no earlier id has
\* an id that does not depend on the time of the request
MintSessionIdFixed(userId, now) == "s1"

MintSessionId(userId, now) == "sess_" \o userId \o "_" \o NatToString(now)

\* memoryManager.addSessionToUser is not a method of MemoryManager: the call
\* throws inside the registration try block and sAdd is not reached
addSessionToUser == Rejected

RegisterSession(sets, userId, sessionId) ==
    IF addSessionToUser.threw THEN sets
    ELSE Put(sets, "sessions:" \o userId,
             (IF ("sessions:" \o userId) \in DOMAIN sets
              THEN sets["sessions:" \o userId] ELSE {}) \cup {sessionId})

\* SMEMBERS sessions:<userId>
sMembers(sets, userId) ==
    IF ("sessions:" \o userId) \in DOMAIN sets THEN sets["sessions:" \o userId] ELSE {}

\* memoryManager.getUserSessions is not a method of MemoryManager either: the
\* history handler throws at its first await and answers 500
getUserSessions == Rejected

\* the sessions GET /api/history/:userId goes through
HistorySessions(sets, userId) ==
    IF getUserSessions.threw THEN {} ELSE sMembers(sets, userId)

\* earlier turns of session s1 and an existing profile
EarlierTurn == <<Message("model", "Nice to meet you."), Message("user", "Hi there")>>
InitialLists == {
    <<>>,
    Put(<<>>, ShortTermKey("u1", "s1"),
        [items |-> EarlierTurn \o EarlierTurn \o EarlierTurn \o EarlierTurn \o EarlierTurn,
         ttl |-> SessionExpiry]) }
InitialProfiles == {<<>>, Put(<<>>, "u1", Put(<<>>, "interests", Arr(<<"chess">>)))}

Event(e, i, role) == [e |-> e, req |-> i, role |-> role]

Init ==
    /\ rulesCall = NoCall
    /\ rulesRet = NotReturned
    /\ valCall = NoCall
    /\ valRet = NotReturned
    /\ redisLists \in InitialLists
    /\ redisSets = <<>>
    /\ profiles \in InitialProfiles
    /\ req = [i \in RequestIds |-> FreshRequest]
    /\ orch = NoCall
    /\ clock = 0
    /\ ghost = {}
    /\ mem = <<>>

\* the handler up to its first await: validation of the body, the timer, the
\* session id, the failed registration, and orchestrateConversation up to lRange
Receive(i) ==
    /\ req[i].pc = "new"
    /\ IF i = 1 THEN TRUE ELSE req[i - 1].pc # "new"
    /\ \E userId \in BodyUserIds, inputText \in BodyTexts, sessionId \in BodySessionIds :
        IF userId = "" \/ inputText = ""
        THEN /\ req' = [req EXCEPT ![i] = [@ EXCEPT !.pc = "done", !.res = BadRequest,
                                                        !.responses = @ + 1]]
             /\ UNCHANGED <<clock, redisSets, ghost>>
        ELSE LET actualSessionId ==
                     IF sessionId = "" THEN MintSessionId(userId, clock) ELSE sessionId
             IN  /\ req' = [req EXCEPT ![i] = [@ EXCEPT !.pc = "history",
                                          !.timer = "armed", !.userId = userId,
                                          !.inputText = inputText,
                                          !.sessionId = actualSessionId]]
                 /\ clock' = IF sessionId = "" THEN clock + 1 ELSE clock
                 /\ redisSets' = RegisterSession(redisSets, userId, actualSessionId)
                 /\ ghost' = ghost \cup {Event("body", i, sessionId)}
    /\ UNCHANGED <<rulesVars, valVars, mem, redisLists, profiles, orch>>

\* 1. RECALL: the short-term history arrives
HistoryRead(i) ==
    /\ req[i].pc = "history"
    /\ \E ok \in BOOLEAN :
             /\ req' = [req EXCEPT ![i] = [@ EXCEPT !.pc = "profile",
                    !.history = getShortTermMemory(redisLists, req[i].userId,
                                                   req[i].sessionId, ok)]]
             /\ ghost' = ghost \cup {
                    Event("lRange", i, ShortTermKey(req[i].userId, req[i].sessionId)),
                    Event("history", i,
                          IF ~ok THEN "unreadable"
                          ELSE IF ShortTermKey(req[i].userId, req[i].sessionId)
                                    \in DOMAIN redisLists
                          THEN "found" ELSE "missing")}
    /\ UNCHANGED <<rulesVars, valVars, mem, storeVars, orch, clock>>

\* 1. RECALL: the profile arrives
ProfileRead(i) ==
    /\ req[i].pc = "profile"
    /\ \E ok \in BOOLEAN :
             /\ req' = [req EXCEPT ![i] = [@ EXCEPT !.pc = "tone",
                    !.userProfile = getLongTermMemory(profiles, req[i].userId, ok)]]
             /\ ghost' = ghost \cup {
                    Event("profile", i,
                          IF ~ok THEN "unreadable"
                          ELSE IF req[i].userId \in DOMAIN profiles
                          THEN "found" ELSE "missing")}
    /\ UNCHANGED <<rulesVars, valVars, mem, storeVars, orch, clock>>

\* 2. ANALYZE
ToneClassified(i) ==
    /\ req[i].pc = "tone"
    /\ \E backend \in ToneReplies :
        req' = [req EXCEPT ![i] = [@ EXCEPT !.pc = "generate",
                                            !.emotion = classifyTone(backend)]]
    /\ UNCHANGED <<rulesVars, valVars, mem, storeVars, orch, clock, ghost>>

\* a handler that answers a request whose timer has already answered it
\* a handler that answers only when the background save is over
AnsweringAfterSave(i) == req[i].timer = "armed" /\ req[i].bg = "done"

AnsweringLate(i) == TRUE

\* the handler is still awaiting Promise.race: the race settles once, with
\* the timer or with orchestrateConversation, whichever comes first
Answering(i) == req[i].timer = "armed"

\* 4. GENERATE, 5. VALIDATE, 6. MEMORIZE and the handler's answer.  A failed
\* generation is rethrown to the handler; a delivered text is checked by
\* validateResponse, whose outcome is only logged, the background save is
\* started and the text is returned.  The handler answers unless its timer
\* has already answered.
Generated(i) ==
    /\ req[i].pc = "generate"
    /\ \E backend \in BackendReplies :
        LET rawResponse == generateContent(TRUE, backend)
            validation == validateResponse(rawResponse.value)
            finalResponse == rawResponse.value
            answering == Answering(i)
        IN  /\ ghost' = ghost \cup {Event("generate", i,
                                            IF backend.ok THEN "delivered" ELSE "failed")}
            /\ IF rawResponse.threw
               THEN req' = [req EXCEPT ![i] = [@ EXCEPT
                            !.pc = "done",
                            !.timer = IF answering THEN "cleared" ELSE @,
                            !.res = IF answering THEN Failure("generation failed") ELSE @,
                            !.responses = IF answering THEN @ + 1 ELSE @]]
               ELSE req' = [req EXCEPT ![i] = [@ EXCEPT
                            !.pc = "done",
                            !.bg = "pushUser",
                            !.text = finalResponse,
                            !.warned = ~validation.isValid,
                            !.timer = IF answering THEN "cleared" ELSE @,
                            !.res = IF answering
                                    THEN Success(finalResponse, req[i].emotion,
                                                 req[i].sessionId)
                                    ELSE @,
                            !.responses = IF answering THEN @ + 1 ELSE @]]
    /\ UNCHANGED <<rulesVars, valVars, mem, storeVars, orch, clock>>

\* the 90 second timer fires while orchestrateConversation is still awaiting:
\* the race is lost, the handler answers 500, the pipeline goes on
Timeout(i) ==
    /\ req[i].timer = "armed"
    /\ req[i].pc \in {"history", "profile", "tone", "generate"}
    /\ req' = [req EXCEPT ![i] = [@ EXCEPT
                  !.timer = "fired",
                  !.res = Failure("Request timeout after 90 seconds"),
                  !.responses = @ + 1]]
    /\ UNCHANGED <<rulesVars, valVars, mem, storeVars, orch, clock, ghost>>

\* a background save whose failed command reaches the caller
BgPushSurfaced(i, at, role, text, then) ==
    /\ req[i].bg = at
    /\ \E ok \in BOOLEAN :
        IF ok
        THEN /\ redisLists' = lPush(redisLists,
                                    ShortTermKey(req[i].userId, req[i].sessionId),
                                    Message(role, text))
             /\ ghost' = ghost \cup {Event("lPush", i, role),
                    Event("key", i, ShortTermKey(req[i].userId, req[i].sessionId))}
             /\ req' = [req EXCEPT ![i].bg = then]
        ELSE /\ req' = [req EXCEPT ![i] = [@ EXCEPT !.bg = "extract",
                                                    !.res = Failure("Memory Save Error")]]
             /\ UNCHANGED <<redisLists, ghost>>
    /\ UNCHANGED <<rulesVars, valVars, mem, redisSets, profiles, orch, clock>>

\* updateShortTermMemory, one Redis command at a time; a failed command ends
\* it in its catch block and processMessageForLongTerm follows
BgPush(i, at, role, text, then) ==
    /\ req[i].bg = at
    /\ \E ok \in BOOLEAN :
        IF ok
        THEN /\ redisLists' = lPush(redisLists,
                                    ShortTermKey(req[i].userId, req[i].sessionId),
                                    Message(role, text))
             /\ ghost' = ghost \cup {Event("lPush", i, role),
                    Event("key", i, ShortTermKey(req[i].userId, req[i].sessionId))}
             /\ req' = [req EXCEPT ![i].bg = then]
        ELSE /\ req' = [req EXCEPT ![i].bg = "extract"]
             /\ UNCHANGED <<redisLists, ghost>>
    /\ UNCHANGED <<rulesVars, valVars, mem, redisSets, profiles, orch, clock>>

BgPushUser(i) == BgPush(i, "pushUser", "user", req[i].inputText, "pushModel")

BgPushModel(i) == BgPush(i, "pushModel", "model", req[i].text, "trim")

BgTrim(i) ==
    /\ req[i].bg = "trim"
    /\ \E ok \in BOOLEAN :
        IF ok
        THEN /\ redisLists' = lTrim(redisLists,
                                    ShortTermKey(req[i].userId, req[i].sessionId),
                                    ShortTermSize - 1)
             /\ req' = [req EXCEPT ![i].bg = "expire"]
        ELSE /\ req' = [req EXCEPT ![i].bg = "extract"]
             /\ UNCHANGED redisLists
    /\ UNCHANGED <<rulesVars, valVars, mem, redisSets, profiles, orch, clock, ghost>>

BgExpire(i) ==
    /\ req[i].bg = "expire"
    /\ \E ok \in BOOLEAN :
        redisLists' = IF ok
                      THEN expire(redisLists,
                                  ShortTermKey(req[i].userId, req[i].sessionId),
                                  SessionExpiry)
                      ELSE redisLists
    /\ req' = [req EXCEPT ![i].bg = "extract"]
    /\ UNCHANGED <<rulesVars, valVars, mem, redisSets, profiles, orch, clock, ghost>>

\* processMessageForLongTerm: the extraction reply arrives; updateLongTermMemory
\* filters the facts and asks for the existing profile when one is left
BgExtracted(i) ==
    /\ req[i].bg = "extract"
    /\ \E reply \in ExtractionReplies(req[i].inputText) :
        LET facts == extractFactsFromMessage(reply)
            filteredFacts == FilterFacts(facts.value)
        IN  IF facts.threw \/ DOMAIN facts.value = {} \/ DOMAIN filteredFacts = {}
            THEN req' = [req EXCEPT ![i].bg = "done"]
            ELSE req' = [req EXCEPT ![i] = [@ EXCEPT !.bg = "profileRead",
                                                     !.facts = filteredFacts]]
    /\ ghost' = ghost \cup {Event("extract", i, "")}
    /\ UNCHANGED <<rulesVars, valVars, mem, storeVars, orch, clock>>

\* updateLongTermMemory: the existing profile arrives
BgProfileRead(i) ==
    /\ req[i].bg = "profileRead"
    /\ \E ok \in BOOLEAN :
        req' = [req EXCEPT ![i] = [@ EXCEPT !.bg = "profileWrite",
                    !.existingProfile = getLongTermMemory(profiles, req[i].userId, ok)]]
    /\ UNCHANGED <<rulesVars, valVars, mem, storeVars, orch, clock, ghost>>

\* updateLongTermMemory: the upsert of the merged profile
BgProfileWrite(i) ==
    /\ req[i].bg = "profileWrite"
    /\ \E ok \in BOOLEAN :
        IF ok
        THEN /\ profiles' = Put(profiles, req[i].userId,
                                MergeProfile(req[i].existingProfile, req[i].facts))
             /\ ghost' = ghost \cup {Event("upsert", i, "")}
        ELSE UNCHANGED <<profiles, ghost>>
    /\ req' = [req EXCEPT ![i].bg = "done"]
    /\ UNCHANGED <<rulesVars, valVars, mem, redisLists, redisSets, orch, clock>>

RECURSIVE Split(_, _)
\* String.prototype.split(sep), sep one character
Split(s, sep) ==
    IF \E k \in 1..Len(s) : Ch(s, k) = sep
    THEN LET k == CHOOSE k \in 1..Len(s) :
                    Ch(s, k) = sep /\ \A j \in 1..(k - 1) : Ch(s, j) # sep
         IN  <<SubSeq(s, 1, k - 1)>> \o Split(SubSeq(s, k + 1, Len(s)), sep)
    ELSE <<s>>

\* GET /api/conversation/:sessionId: parts[1] of the session id, spelled
\* "undefined" by the key template when the id has no second part
ConversationUserId(sessionId) ==
    LET parts == Split(sessionId, "_")
    IN  IF Len(parts) >= 2 THEN parts[2] ELSE "undefined"

\* GET /api/conversation/:sessionId, sent by the client with the session id
\* of the response once the turn of request i has been saved
ConversationGet(i) ==
    /\ req[i].res.sent
    /\ req[i].res.success = "true"
    /\ req[i].bg = "done"
    /\ ~req[i].loaded.done
    /\ \E ok \in BOOLEAN :
        LET sessionId == req[i].res.sessionId
            userId == ConversationUserId(sessionId)
        IN  req' = [req EXCEPT ![i].loaded =
                        [done |-> TRUE, ok |-> ok,
                         key |-> ShortTermKey(userId, sessionId),
                         messages |-> getShortTermMemory(redisLists, userId, sessionId, ok)]]
    /\ UNCHANGED <<rulesVars, valVars, mem, storeVars, orch, clock, ghost>>

Next ==
    \E i \in RequestIds :
        \/ Receive(i)
        \/ HistoryRead(i)
        \/ ProfileRead(i)
        \/ ToneClassified(i)
        \/ Generated(i)
        \/ Timeout(i)
        \/ BgPushUser(i)
        \/ BgPushModel(i)
        \/ BgTrim(i)
        \/ BgExpire(i)
        \/ BgExtracted(i)
        \/ BgProfileRead(i)
        \/ BgProfileWrite(i)
        \/ ConversationGet(i)

Spec == Init /\ [][Next]_vars

\* the timer of a request that is not answered fires
SpecTimed == Init /\ [][Next]_vars /\ \A i \in RequestIds : WF_vars(Timeout(i))

(***************************************************************************)
(* ConversationOrchestrator.processConversation                            *)
(***************************************************************************)
MaxInputLength == 2000

\* validateInput
validateInput(input) ==
    IF ~Truthy(input) \/ input.t # "string" \/ Len(Trim(input.s)) = 0
    THEN [isValid |-> FALSE, error |-> "Input cannot be empty"]
    ELSE IF Len(input.s) > MaxInputLength
    THEN [isValid |-> FALSE, error |-> "Input too long"]
    ELSE [isValid |-> TRUE, error |-> ""]

emotionalIndicators == <<
    "sad", "happy", "angry", "excited", "anxious", "depressed",
    "joy", "love", "hate", "scared", "afraid", "lonely", "stressed",
    "upset", "frustrated", "overwhelmed", "thrilled", "amazing", "terrible">>

playfulIndicators == <<
    "joke", "funny", "haha", "lol", "xd", "hilarious", "silly", "playful",
    "tease", "banter", "witty", "clever", "smart">>

analyzeEmotion(input) ==
    LET lowerInput == ToLowerCase(input)
    IN  IF IncludesAny(lowerInput, emotionalIndicators) THEN "emotional"
        ELSE IF IncludesAny(lowerInput, playfulIndicators) THEN "playful"
        ELSE "neutral"

\* { sender, content } as updateMemory and addToShortTerm store it
OrchMessage(sender, content) == [sender |-> sender, content |-> content]

\* formatMemoryForContext reads msg.sender.toUpperCase() of every short-term
\* message: a message stored without a sender makes it throw
formatMemoryForContext(shortTerm) ==
    IF \E k \in 1..Len(shortTerm) : "sender" \notin DOMAIN shortTerm[k]
    THEN Rejected
    ELSE Resolved("context")

\* callLLM: generateContent(context), with no history argument
callLLM(context, backend) == generateContent(FALSE, backend)

Alnum == WordChars \ {"_"}

StripLeft(s) ==
    LET keep == {i \in 1..Len(s) : Ch(s, i) \in Alnum}
    IN  IF keep = {} THEN "" ELSE SubSeq(s, SetMin(keep), SetMax(keep))

\* postProcessResponse: the text without leading and trailing characters
\* other than letters and digits, with a full stop added when it does not
\* end in . ! or ?
postProcessResponse(rawResponse) ==
    LET cleanedResponse == StripLeft(rawResponse)
    IN  IF cleanedResponse # "" /\ Ch(cleanedResponse, Len(cleanedResponse)) \in {".", "!", "?"}
        THEN cleanedResponse
        ELSE cleanedResponse \o "."

NotArrived == [arrived |-> FALSE, ok |-> FALSE, value |-> <<>>]
Arrived(ok, value) == [arrived |-> TRUE, ok |-> ok, value |-> value]

NoResult == [returned |-> FALSE, success |-> FALSE, error |-> "", text |-> ""]
Failed(error) == [returned |-> TRUE, success |-> FALSE, error |-> error, text |-> ""]

OrchInputs ==
    {Str(t) : t \in EndpointUtterances \cup {"", "   ", LongestInput, TooLongInput}}
    \cup {Undefined}
OrchSessionIds == {"s1", "s2"}

\* lists the two pipelines and addToShortTerm leave behind
OrchInitialLists ==
    InitialLists \cup {
        Put(<<>>, ShortTermKey("u1", "s2"),
            [items |-> <<OrchMessage("bot", "Nice to meet you."),
                         OrchMessage("user", "Hi there")>>,
             ttl |-> SessionExpiry]) }

OrchInit ==
    /\ rulesCall = NoCall
    /\ rulesRet = NotReturned
    /\ valCall = NoCall
    /\ valRet = NotReturned
    /\ redisLists \in OrchInitialLists
    /\ redisSets = <<>>
    /\ profiles \in InitialProfiles
    /\ req = <<>>
    /\ orch = NoCall
    /\ clock = 0
    /\ ghost = {}
    /\ mem = <<>>

\* Step 1 and the start of step 2: both reads of getUserMemory are issued
OrchCall ==
    /\ orch = NoCall
    /\ \E userId \in UserIds, inputText \in OrchInputs, sessionId \in OrchSessionIds :
        LET validatedInput == validateInput(inputText)
            call == [op |-> "processConversation", pc |-> "recall", userId |-> userId,
                     inputText |-> inputText, sessionId |-> sessionId,
                     shortTerm |-> NotArrived, longTerm |-> NotArrived,
                     emotionalContext |-> "", backendOk |-> FALSE, reply |-> "",
                     text |-> "",
                     result |-> NoResult]
        IN  orch' = IF validatedInput.isValid THEN call
                    ELSE [call EXCEPT !.pc = "done", !.result = Failed(validatedInput.error)]
    /\ UNCHANGED <<rulesVars, valVars, mem, storeVars, req, clock, ghost>>

OrchShortTermRead ==
    /\ orch.op = "processConversation"
    /\ orch.pc = "recall"
    /\ ~orch.shortTerm.arrived
    /\ \E ok \in BOOLEAN :
        orch' = [orch EXCEPT !.shortTerm =
                    Arrived(ok, getShortTermMemory(redisLists, orch.userId,
                                                   orch.sessionId, ok))]
    /\ UNCHANGED <<rulesVars, valVars, mem, storeVars, req, clock, ghost>>

OrchLongTermRead ==
    /\ orch.op = "processConversation"
    /\ orch.pc = "recall"
    /\ ~orch.longTerm.arrived
    /\ \E ok \in BOOLEAN :
        orch' = [orch EXCEPT !.longTerm =
                    Arrived(ok, getLongTermMemory(profiles, orch.userId, ok))]
    /\ UNCHANGED <<rulesVars, valVars, mem, storeVars, req, clock, ghost>>

\* the default safe response of regenerateWithCorrections
FallbackReply == "I'm here to help. Could you rephrase that?"

\* regenerateWithCorrections: generateContent(correctionPrompt), again without
\* a history argument; its failure is caught and answered with the fallback
regenerateWithCorrections(backend) ==
    LET correctedText == generateContent(FALSE, backend)
    IN  IF correctedText.threw THEN FallbackReply ELSE correctedText.value

\* Steps 7 and 8: the persona scan and the identity validation together
hasViolations(text, longTerm) ==
    \/ ~validateResponse(text).isValid
    \/ ~validate(Str(text), MemoryObj(TRUE, DOMAIN longTerm)).overallValid

\* Steps 6 to 8 for a delivered reply: post-processed and validated, the call
\* goes on to regenerate or to update the memory
Validated(call, rawResponse) ==
    [call EXCEPT !.text = postProcessResponse(rawResponse),
                 !.pc = IF hasViolations(postProcessResponse(rawResponse),
                                         call.longTerm.value)
                        THEN "regenerate" ELSE "updateMemory"]

\* the catch block of processConversation
Caught(call, message) == [call EXCEPT !.pc = "done", !.result = Failed(message)]

\* Steps 3 to 5 once both reads have arrived, and what follows without a
\* further await.  An exception of prepareLLMContext or callLLM ends the
\* call in the catch block.
OrchGenerate ==
    /\ orch.op = "processConversation"
    /\ orch.pc = "recall"
    /\ orch.shortTerm.arrived /\ orch.longTerm.arrived
    /\ \E backend \in BackendReplies :
        LET called == [orch EXCEPT !.emotionalContext = analyzeEmotion(orch.inputText.s),
                                   !.backendOk = backend.ok,
                                   !.reply = backend.text]
            llmContext == formatMemoryForContext(orch.shortTerm.value)
            rawResponse == callLLM(llmContext.value, backend)
        IN  orch' = IF llmContext.threw
                    THEN Caught(called, "Cannot read properties of undefined (reading 'toUpperCase')")
                    ELSE IF rawResponse.threw
                    THEN Caught(called, "Cannot read properties of undefined (reading 'forEach')")
                    ELSE Validated(called, rawResponse.value)
    /\ UNCHANGED <<rulesVars, valVars, mem, storeVars, req, clock, ghost>>

OrchNext ==
    \/ OrchCall
    \/ OrchShortTermRead
    \/ OrchLongTermRead
    \/ OrchGenerate

SpecOrch == OrchInit /\ [][OrchNext]_vars

(***************************************************************************)
(* MemoryManager called on its own (as the integration tests call it)      *)
(***************************************************************************)
MaxCallers == 2
MaxCalls == 2
CallerIds == 1..MaxCallers

MemUserId == "u1"
MemSessionId == "s1"
MemKey == ShortTermKey(MemUserId, MemSessionId)

\* the fact objects handed to updateLongTermMemory
MemFactSets == {
    <<>>,
    Put(<<>>, "seen", Str("yesterday")),
    Put(<<>>, "name", Str("John")),
    Put(<<>>, "name", Str("Jane")),
    Put(<<>>, "interests", Arr(<<"hiking">>)),
    Put(Put(<<>>, "name", Str("John")), "seen", Str("yesterday")) }

\* the k-th message a caller ever appended
NthMessage(k) == Message("user", NatToString(k))

\* messages first+1 .. first+n, in the order the caller passes them
Batch(first, n) == [j \in 1..n |-> NthMessage(first + j)]
BatchSizes == 0..2

Reverse(items) == [j \in 1..Len(items) |-> items[Len(items) + 1 - j]]

\* lengths of the session list before the first call
InitialLengths == {0, ShortTermSize - 1}

FreshCall == [
    op |-> "none", pc |-> "idle", calls |-> 0,
    userId |-> "", sessionId |-> "",
    facts |-> <<>>, filteredFacts |-> <<>>, existingProfile |-> <<>>,
    messages |-> <<>>, ret |-> <<>>,
    reads |-> 0, writes |-> 0, readOk |-> FALSE, seen |-> 0 ]

MemInit ==
    /\ rulesCall = NoCall
    /\ rulesRet = NotReturned
    /\ valCall = NoCall
    /\ valRet = NotReturned
    /\ redisSets = <<>>
    /\ profiles \in InitialProfiles
    /\ req = <<>>
    /\ orch = NoCall
    /\ clock \in InitialLengths
    /\ redisLists = IF clock = 0 THEN <<>>
                    ELSE Put(<<>>, MemKey, [items |-> Reverse(Batch(0, clock)),
                                           ttl |-> SessionExpiry])
    /\ ghost = [appended |-> Batch(0, clock), merges |-> <<>>]
    /\ mem = [c \in CallerIds |-> FreshCall]

\* the calls made so far by the callers 1..n
RECURSIVE CallsMade(_)
CallsMade(n) == IF n = 0 THEN 0 ELSE mem[n].calls + CallsMade(n - 1)

\* caller c is between calls and the run may hold one more call
MayCall(c) == mem[c].pc = "idle" /\ CallsMade(MaxCallers) < MaxCalls

\* updateLongTermMemory up to its first await: the facts are filtered and
\* the call returns when none is left
updateLongTermMemoryCall(c) ==
    /\ MayCall(c)
    /\ \E facts \in MemFactSets :
        LET filteredFacts == FilterFacts(facts)
        IN  mem' = [mem EXCEPT ![c] = [@ EXCEPT
                    !.op = "updateLongTermMemory",
                    !.calls = @ + 1,
                    !.userId = MemUserId,
                    !.facts = facts,
                    !.filteredFacts = filteredFacts,
                    !.pc = IF DOMAIN filteredFacts = {} THEN "done" ELSE "read"]]
    /\ UNCHANGED <<rulesVars, valVars, storeVars, req, orch, clock, ghost>>

\* updateLongTermMemory: existingProfile = await this.getLongTermMemory(userId)
updateLongTermMemoryRead(c) ==
    /\ mem[c].pc = "read"
    /\ \E ok \in BOOLEAN :
        mem' = [mem EXCEPT ![c] = [@ EXCEPT
                    !.pc = "write",
                    !.existingProfile = getLongTermMemory(profiles, mem[c].userId, ok),
                    !.reads = @ + 1,
                    !.readOk = ok,
                    !.seen = Len(ghost.merges)]]
    /\ UNCHANGED <<rulesVars, valVars, storeVars, req, orch, clock, ghost>>

\* updateLongTermMemory: the upsert of { ...existingProfile, ...filteredFacts };
\* a failed query is logged and the call returns all the same
updateLongTermMemoryWrite(c) ==
    /\ mem[c].pc = "write"
    /\ \E ok \in BOOLEAN :
        IF ok
        THEN /\ profiles' = Put(profiles, mem[c].userId,
                                MergeProfile(mem[c].existingProfile, mem[c].filteredFacts))
             /\ ghost' = [ghost EXCEPT !.merges =
                            Append(@, [userId |-> mem[c].userId, facts |-> mem[c].facts])]
             /\ mem' = [mem EXCEPT ![c] = [@ EXCEPT !.pc = "done", !.writes = @ + 1]]
        ELSE /\ mem' = [mem EXCEPT ![c].pc = "done"]
             /\ UNCHANGED <<profiles, ghost>>
    /\ UNCHANGED <<rulesVars, valVars, redisLists, redisSets, req, orch, clock>>

\* getLongTermMemory called by the caller itself
getLongTermMemoryCall(c) ==
    /\ MayCall(c)
    /\ \E ok \in BOOLEAN :
        mem' = [mem EXCEPT ![c] = [@ EXCEPT
                    !.op = "getLongTermMemory",
                    !.calls = @ + 1,
                    !.userId = MemUserId,
                    !.pc = "done",
                    !.ret = getLongTermMemory(profiles, MemUserId, ok),
                    !.reads = @ + 1,
                    !.readOk = ok,
                    !.seen = Len(ghost.merges)]]
    /\ UNCHANGED <<rulesVars, valVars, storeVars, req, orch, clock, ghost>>

\* updateShortTermMemory(userId, sessionId, messages) up to its first await
updateShortTermMemoryCall(c) ==
    /\ MayCall(c)
    /\ \E n \in BatchSizes :
        /\ mem' = [mem EXCEPT ![c] = [@ EXCEPT
                    !.op = "updateShortTermMemory",
                    !.calls = @ + 1,
                    !.userId = MemUserId,
                    !.sessionId = MemSessionId,
                    !.messages = Batch(clock, n),
                    !.pc = IF n = 0 THEN "trim" ELSE "push"]]
        /\ clock' = clock + n
    /\ UNCHANGED <<rulesVars, valVars, storeVars, req, orch, ghost>>

\* updateShortTermMemory: one lPush of the loop; a failed command ends the
\* call in its catch block
updateShortTermMemoryPush(c) ==
    /\ mem[c].pc = "push"
    /\ \E ok \in BOOLEAN :
        IF ok
        THEN /\ redisLists' = lPush(redisLists,
                                    ShortTermKey(mem[c].userId, mem[c].sessionId),
                                    Head(mem[c].messages))
             /\ ghost' = [ghost EXCEPT !.appended = Append(@, Head(mem[c].messages))]
             /\ mem' = [mem EXCEPT ![c] = [@ EXCEPT
                        !.messages = Tail(@),
                        !.pc = IF Tail(mem[c].messages) = <<>> THEN "trim" ELSE "push"]]
        ELSE /\ mem' = [mem EXCEPT ![c].pc = "done"]
             /\ UNCHANGED <<redisLists, ghost>>
    /\ UNCHANGED <<rulesVars, valVars, redisSets, profiles, req, orch, clock>>

\* updateShortTermMemory: lTrim(key, 0, shortTermSize - 1)
updateShortTermMemoryTrim(c) ==
    /\ mem[c].pc = "trim"
    /\ \E ok \in BOOLEAN :
        IF ok
        THEN /\ redisLists' = lTrim(redisLists,
                                    ShortTermKey(mem[c].userId, mem[c].sessionId),
                                    ShortTermSize - 1)
             /\ mem' = [mem EXCEPT ![c].pc = "expire"]
        ELSE /\ mem' = [mem EXCEPT ![c].pc = "done"]
             /\ UNCHANGED redisLists
    /\ UNCHANGED <<rulesVars, valVars, redisSets, profiles, req, orch, clock, ghost>>

\* updateShortTermMemory: expire(key, sessionExpiry), after which it returns
updateShortTermMemoryExpire(c) ==
    /\ mem[c].pc = "expire"
    /\ \E ok \in BOOLEAN :
        IF ok
        THEN redisLists' = expire(redisLists,
                                  ShortTermKey(mem[c].userId, mem[c].sessionId),
                                  SessionExpiry)
        ELSE UNCHANGED redisLists
    /\ mem' = [mem EXCEPT ![c].pc = "done"]
    /\ UNCHANGED <<rulesVars, valVars, redisSets, profiles, req, orch, clock, ghost>>

\* getShortTermMemory called by the caller itself
getShortTermMemoryCall(c) ==
    /\ MayCall(c)
    /\ \E ok \in BOOLEAN :
        mem' = [mem EXCEPT ![c] = [@ EXCEPT
                    !.op = "getShortTermMemory",
                    !.calls = @ + 1,
                    !.userId = MemUserId,
                    !.sessionId = MemSessionId,
                    !.pc = "done",
                    !.ret = getShortTermMemory(redisLists, MemUserId, MemSessionId, ok)]]
    /\ UNCHANGED <<rulesVars, valVars, storeVars, req, orch, clock, ghost>>

\* the caller's await resolves; it may go on to its next call
MemReturn(c) ==
    /\ mem[c].pc = "done"
    /\ CallsMade(MaxCallers) < MaxCalls
    /\ mem' = [mem EXCEPT ![c] = [FreshCall EXCEPT !.calls = mem[c].calls]]
    /\ UNCHANGED <<rulesVars, valVars, storeVars, req, orch, clock, ghost>>

MemNext ==
    \E c \in CallerIds :
        \/ updateLongTermMemoryCall(c)
        \/ updateLongTermMemoryRead(c)
        \/ updateLongTermMemoryWrite(c)
        \/ getLongTermMemoryCall(c)
        \/ updateShortTermMemoryCall(c)
        \/ updateShortTermMemoryPush(c)
        \/ updateShortTermMemoryTrim(c)
        \/ updateShortTermMemoryExpire(c)
        \/ getShortTermMemoryCall(c)
        \/ MemReturn(c)

SpecMemory == MemInit /\ [][MemNext]_vars

(***************************************************************************)
(* summarizeConversation called on its own                                 *)
(***************************************************************************)
\* the longest conversation summarized
MaxMessages == 11

\* labels of emotionalContext; "" is a message that carries none
EmotionLabels == {"happy", "sad"}

\* senders alternate; the first messages carry the labels given
SummaryMessage(k, labels) ==
    [sender |-> IF k % 2 = 1 THEN "user" ELSE "bot",
     emotionalContext |-> IF k <= Len(labels) THEN labels[k] ELSE ""]

SummaryInputs ==
    {[k \in 1..n |-> SummaryMessage(k, labels)] :
        n \in 0..MaxMessages, labels \in [1..3 -> EmotionLabels \cup {""}]}

\* arr.reduce(...) counts the labels into a plain object; the second
\* .reduce is called on that object, which has no such method: a TypeError
\* is thrown whatever the array holds
mostFrequent(arr) == Rejected

\* messages.length / 10 is counted in tenths
SignificanceScale == 10

\* the summary object, without its random id and its timestamp
summarizeConversation(messages) ==
    IF Len(messages) = 0 THEN Resolved(Null)
    ELSE
    LET userMessages == SelectSeq(messages, LAMBDA m : m.sender = "user")
        botMessages == SelectSeq(messages, LAMBDA m : m.sender = "bot")
        carrying == SelectSeq(messages, LAMBDA m : m.emotionalContext # "")
        emotionalContexts == [k \in 1..Len(carrying) |-> carrying[k].emotionalContext]
        primaryEmotion == IF Len(emotionalContexts) > 0
                          THEN mostFrequent(emotionalContexts)
                          ELSE Resolved("neutral")
        significance == IF Len(messages) < SignificanceScale
                        THEN Len(messages) ELSE SignificanceScale
    IN  IF primaryEmotion.threw THEN Rejected
        ELSE Resolved([t |-> "summary",
                       summary |-> <<Len(userMessages), Len(botMessages)>>,
                       primaryEmotion |-> primaryEmotion.value,
                       significance |-> significance,
                       messageCount |-> Len(messages)])

SummaryInit ==
    /\ rulesCall = NoCall
    /\ rulesRet = NotReturned
    /\ valCall = NoCall
    /\ valRet = NotReturned
    /\ redisLists = <<>>
    /\ redisSets = <<>>
    /\ profiles = <<>>
    /\ req = <<>>
    /\ orch = NoCall
    /\ clock = 0
    /\ ghost = {}
    /\ \E messages \in SummaryInputs :
        mem = [c \in {1} |-> [FreshCall EXCEPT !.op = "summarizeConversation",
                                               !.messages = messages]]

summarizeConversationCall ==
    /\ mem[1].op = "summarizeConversation"
    /\ mem[1].pc = "idle"
    /\ mem' = [mem EXCEPT ![1].pc = "done",
                          ![1].calls = 1,
                          ![1].ret = summarizeConversation(mem[1].messages)]
    /\ UNCHANGED <<rulesVars, valVars, storeVars, req, orch, clock, ghost>>

SpecSummary == SummaryInit /\ [][summarizeConversationCall]_vars

(***************************************************************************)
(* Properties of the rule engine                                           *)
(***************************************************************************)
ShouldStoreReturned ==
    rulesCall.op = "shouldStoreInLongTermMemory" /\ rulesRet.done

ValidateFactReturned ==
    rulesCall.op = "validateMemoryFact" /\ rulesRet.done

\* the fact the first matching fact pattern extracts from the input
FirstExtractedFact(input) ==
    LET p == FirstFactPattern(input)
    IN  IF p = 0 THEN NoFact ELSE extractFact(input, MatchI(factIndicators[p], input))

\* C5: an utterance that matches a rejection pattern is classified
\* rejection_pattern with shouldStore = false, also when it matches a fact
\* pattern or holds emotional keywords
C5_RejectionPrecedes ==
    (ShouldStoreReturned /\ MatchesRejection(rulesCall.input))
        => (rulesRet.decision.type = "rejection_pattern" /\ ~rulesRet.decision.shouldStore)

\* a rejected utterance that also matches a fact pattern whose value would
\* have been stored, and one that also holds an emotional keyword
C5_Witness ==
    /\ ShouldStoreReturned
    /\ MatchesRejection(rulesCall.input)
    /\ ~FirstExtractedFact(rulesCall.input).isNull
    /\ ~containsEmotionalContent(FirstExtractedFact(rulesCall.input).value)
    /\ rulesRet.decision.type = "rejection_pattern"

\* C6: with no rejection pattern matching, a first fact pattern whose
\* extracted value holds an emotional keyword gives type emotional,
\* shouldStore = false and no fact; shouldStore = true only with type fact
C6_EmotionalNotFact ==
    ShouldStoreReturned =>
        /\ (/\ ~MatchesRejection(rulesCall.input)
            /\ ~FirstExtractedFact(rulesCall.input).isNull
            /\ containsEmotionalContent(FirstExtractedFact(rulesCall.input).value))
              => (/\ rulesRet.decision.type = "emotional"
                  /\ ~rulesRet.decision.shouldStore
                  /\ rulesRet.decision.fact.isNull)
        /\ rulesRet.decision.shouldStore => rulesRet.decision.type = "fact"

\* a fact pattern matched, its value holds an emotional keyword, and the
\* decision is emotional
C6_Witness ==
    /\ ShouldStoreReturned
    /\ ~MatchesRejection(rulesCall.input)
    /\ ~FirstExtractedFact(rulesCall.input).isNull
    /\ containsEmotionalContent(FirstExtractedFact(rulesCall.input).value)
    /\ rulesRet.decision.type = "emotional"

\* the fact has no value, or an empty one
MissingOrEmpty(fact) ==
    \/ fact.t # "fact"
    \/ fact.value.t \in {"null", "undefined"}
    \/ fact.value = Str("")
    \/ fact.value = Arr(<<>>)

\* String(value) in lower case
StringForm(value) ==
    IF value.t \in {"null", "undefined"} THEN ""
    ELSE ToLowerCase(ToStringJS(value))

\* C7: validateMemoryFact returns isValid = false when the value is missing or
\* empty, when its string form is shorter than 2 or longer than 200
\* characters, or holds a self-referential or a future-tense marker, and
\* isValid = true for every other fact
C7_ValidateFactExactly ==
    ValidateFactReturned =>
        LET fact == rulesCall.fact
            form == IF fact.t = "fact" THEN StringForm(fact.value) ELSE ""
        IN  rulesRet.validation.isValid =
                ~(\/ MissingOrEmpty(fact)
                  \/ Len(form) < MinFactLen
                  \/ Len(form) > MaxFactLen
                  \/ isSelfReferential(form)
                  \/ hasTemporalIssues(form))

(***************************************************************************)
(* Properties of the validator                                             *)
(***************************************************************************)
ValidateReturned == valCall.op = "validate" /\ valRet.done

\* the reply holds the phrase, whatever the case of either
HoldsPhrase(response, phrase) ==
    response.t = "string" /\ Includes(ToLowerCase(response.s), ToLowerCase(phrase))

\* the report lists a violation of the type for the phrase, under its type
Reports(report, type, phrase) ==
    /\ type \in TypesOf(report)
    /\ \E i \in DOMAIN ByType(report, type) : ByType(report, type)[i].detail = phrase

\* C8: a reply that holds a configured forbidden phrase, in any case, gets
\* overallValid = false and a forbidden_statement violation for that phrase;
\* a never-claim phrase gets a never_claim_violation likewise
C8_ForbiddenPhraseReported ==
    ValidateReturned =>
        /\ \A i \in DOMAIN persona.forbidden_outputs :
              HoldsPhrase(valCall.response, persona.forbidden_outputs[i])
                  => /\ ~valRet.report.overallValid
                     /\ Reports(valRet.report, "forbidden_statement",
                                persona.forbidden_outputs[i])
        /\ \A i \in DOMAIN persona.never_claims :
              HoldsPhrase(valCall.response, persona.never_claims[i])
                  => /\ ~valRet.report.overallValid
                     /\ Reports(valRet.report, "never_claim_violation",
                                persona.never_claims[i])

\* a reply holding a forbidden phrase in another case than configured, and a
\* never-claim phrase as well, both reported
C8_Witness ==
    /\ ValidateReturned
    /\ \E i \in DOMAIN persona.forbidden_outputs :
          /\ HoldsPhrase(valCall.response, persona.forbidden_outputs[i])
          /\ ~Includes(valCall.response.s, persona.forbidden_outputs[i])
          /\ Reports(valRet.report, "forbidden_statement", persona.forbidden_outputs[i])
    /\ \E i \in DOMAIN persona.never_claims :
          /\ HoldsPhrase(valCall.response, persona.never_claims[i])
          /\ Reports(valRet.report, "never_claim_violation", persona.never_claims[i])

\* the sub-checks that throw on the arguments of the call
ThrowingRules == {i \in DOMAIN RuleNames : RunRule(i, valCall.response, valCall.memory).threw}

RECURSIVE SumLens(_, _)
\* the number of violations in the first n rule results
SumLens(ruleResults, n) ==
    IF n = 0 THEN 0 ELSE SumLens(ruleResults, n - 1) + Len(ruleResults[n].violations)

\* C9: when a sub-check throws, overallValid is false and the failure is a
\* validation_error violation among the aggregated violations: it is counted
\* in totalViolations and grouped under its type in violationsByType
C9_ThrownRuleAggregated ==
    (ValidateReturned /\ ThrowingRules # {}) =>
        /\ ~valRet.report.overallValid
        /\ "validation_error" \in TypesOf(valRet.report)
        /\ Len(ByType(valRet.report, "validation_error")) = Cardinality(ThrowingRules)
        /\ valRet.report.totalViolations
              = SumLens(valRet.report.ruleResults, Len(valRet.report.ruleResults))

CorrectionReturned == ValidateReturned /\ "correction" \in DOMAIN valRet

PersonaIntro == "I'm " \o persona.name \o ", " \o persona.identity \o "."

\* C30: generateCorrection returns the reply itself for a valid report; for
\* an invalid one the persona restatement when the report has a
\* forbidden_statement violation (with or without identity_mismatch), else
\* the persona reintroduction when it has an identity_mismatch violation,
\* else the reply behind the persona prefix; every correction of an invalid
\* report holds the persona's name and identity.
C30_CorrectionByRule ==
    CorrectionReturned =>
        LET report == valRet.report
            original == ToStringJS(valCall.response)
            types == TypesOf(report)
        IN  /\ report.overallValid => valRet.correction = original
            /\ ~report.overallValid /\ "forbidden_statement" \in types
                => valRet.correction
                    = PersonaIntro \o " I'm here to have a helpful conversation."
            /\ ~report.overallValid /\ "forbidden_statement" \notin types
                    /\ "identity_mismatch" \in types
                => valRet.correction
                    = "Hello! " \o PersonaIntro \o " How can I assist you today?"
            /\ ~report.overallValid /\ "forbidden_statement" \notin types
                    /\ "identity_mismatch" \notin types
                => valRet.correction
                    = PersonaIntro \o " I'm here to listen and help. " \o original
            /\ ~report.overallValid
                => /\ Includes(valRet.correction, persona.name)
                   /\ Includes(valRet.correction, persona.identity)

\* a report with both a forbidden_statement and an identity_mismatch
\* violation has been corrected
C30_Witness ==
    /\ CorrectionReturned
    /\ ~valRet.report.overallValid
    /\ {"forbidden_statement", "identity_mismatch"} \subseteq TypesOf(valRet.report)

(***************************************************************************)
(* Properties of the conversation pipelines                                *)
(***************************************************************************)
TimedOut(i) == req[i].timer = "fired"
Appended(i) == \E ev \in ghost : ev.e = "lPush" /\ ev.req = i

\* C1: a request whose timer won the race against the pipeline is answered
\* with success false, and no message of its turn, neither the user's nor the
\* reply, is pushed to the session's short-term list at any later time.
C1_TimeoutNoAppend ==
    \A i \in DOMAIN req :
        TimedOut(i) => req[i].res.success = "false" /\ ~Appended(i)

\* C2: every text returned in a success response is a validated reply: neither
\* the persona scan nor the identity validator reports a violation for it.
C2_SuccessReplyValidated ==
    \A i \in DOMAIN req :
        req[i].res.success = "true"
            => ~hasViolations(req[i].res.text, req[i].userProfile)

\* C3: a turn whose utterance matches a rejection pattern never writes the
\* user's profile.
C3_RejectedUtteranceNoWrite ==
    \A ev \in ghost :
        ev.e = "upsert" => ~MatchesRejection(req[ev.req].inputText)

StoresAnswered == orch.shortTerm.ok /\ orch.longTerm.ok

\* C4: a processConversation call with a non-empty input of at most 2000
\* characters, whose memory reads and backend answered without error, ends
\* with success true and a response text.
C4_ValidInputSucceeds ==
    (/\ orch.op = "processConversation"
     /\ orch.pc = "done"
     /\ validateInput(orch.inputText).isValid
     /\ StoresAnswered
     /\ orch.backendOk)
        => orch.result.success /\ orch.result.text # ""

OrchReturned == orch.op = "processConversation" /\ orch.pc = "done"

\* the first reply the backend has for the call, as the pipeline would see it
FirstReplyViolates ==
    /\ orch.backendOk
    /\ hasViolations(postProcessResponse(Trim(orch.reply)), orch.longTerm.value)

\* C11: when the first reply violates and the regeneration call fails, the
\* call still ends with success true and the text returned is the fixed
\* fallback reply; the regeneration error is not propagated.
C11_FallbackOnFailedRegeneration ==
    (/\ OrchReturned
     /\ validateInput(orch.inputText).isValid
     /\ StoresAnswered
     /\ FirstReplyViolates
     /\ \A backend \in BackendReplies :
            regenerateWithCorrections(backend) = FallbackReply)
        => orch.result.success /\ orch.result.text = FallbackReply

GenericFailure(i) ==
    /\ req[i].res.status = 500
    /\ req[i].res.success = "false"
    /\ req[i].res.details = "Request timeout after 90 seconds"

\* C12: every request receives exactly one response: never a second one, in
\* particular not when the pipeline's result or error arrives after the
\* timer has fired; a timed-out request has the generic processing failure;
\* and every received request is eventually answered.
C12_ExactlyOneResponse ==
    /\ [](\A i \in RequestIds :
            /\ req[i].responses <= 1
            /\ req[i].res.sent <=> req[i].responses = 1
            /\ TimedOut(i) => GenericFailure(i))
    /\ \A i \in RequestIds : (req[i].pc # "new") ~> (req[i].responses = 1)

\* a pipeline that finished after the timer had answered
C12_Witness ==
    \E i \in RequestIds :
        TimedOut(i) /\ req[i].pc = "done" /\ req[i].responses = 1

BgStarted(i) == req[i].bg # "idle"

\* C13: a failure of a memory write of the background save never changes what
\* the caller receives: from the start of the save to its end, whatever
\* command fails, the response is the success response built from the
\* generated text (unless the timer had answered before).
C13_PersistFailureNotSurfaced ==
    \A i \in DOMAIN req :
        BgStarted(i) /\ ~TimedOut(i)
            => req[i].res = Success(req[i].text, req[i].emotion, req[i].sessionId)

\* a save that ended without its short-term append, under a success response
C13_Witness ==
    \E i \in DOMAIN req :
        req[i].bg = "done" /\ ~Appended(i) /\ req[i].res.success = "true"

Received(i) == req[i].pc # "new"

\* no stage of the pipeline has run for the request
NoStageRan(i) ==
    /\ req[i].pc = "done"
    /\ req[i].bg = "idle"
    /\ req[i].timer = "unset"

GenerationFailed(i) == Event("generate", i, "failed") \in ghost
WroteMemory(i) == \E ev \in ghost : ev.req = i /\ ev.e \in {"lPush", "upsert"}
CalledBackendAgain(i) == \E ev \in ghost : ev.req = i /\ ev.e = "extract"

\* C15: when the primary generation call fails, the request ends with a
\* failure response, the backend is not called again for it, and nothing of
\* the turn is appended to the short-term list or merged into the profile.
C15_FailedGenerationFailsRequest ==
    \A i \in DOMAIN req :
        GenerationFailed(i)
            => /\ req[i].pc = "done"
               /\ req[i].res.sent /\ req[i].res.success = "false"
               /\ ~CalledBackendAgain(i)
               /\ ~WroteMemory(i)
               /\ ~BgStarted(i)

\* a request answered with the failure of its generation call
C15_Witness ==
    \E i \in DOMAIN req :
        GenerationFailed(i) /\ req[i].res.details = "generation failed"

(***************************************************************************)
(* Properties of the memory manager                                        *)
(***************************************************************************)
NoneAccepted(facts) ==
    \A k \in DOMAIN facts : ~validateMemoryFact(FactObj(k, facts[k])).isValid

\* C16: an updateLongTermMemory call none of whose facts is accepted by
\* validateMemoryFact (an empty fact object included) returns without a
\* query on user_profiles, neither the read nor the upsert, and leaves
\* the profile as it was.
C16_NoAcceptedFactNoStoreAccess ==
    /\ [](\A c \in DOMAIN mem :
            mem[c].op = "updateLongTermMemory" /\ NoneAccepted(mem[c].facts)
                => mem[c].pc = "done" /\ mem[c].reads = 0 /\ mem[c].writes = 0)
    /\ [][\A c \in DOMAIN mem :
            /\ mem[c].op = "none"
            /\ mem'[c].op = "updateLongTermMemory"
            /\ NoneAccepted(mem'[c].facts)
            => profiles' = profiles]_vars

\* a call whose only fact was rejected has returned
C16_Witness ==
    \E c \in DOMAIN mem :
        /\ mem[c].op = "updateLongTermMemory"
        /\ mem[c].facts # <<>> /\ NoneAccepted(mem[c].facts)
        /\ mem[c].pc = "done"

\* the upsert of caller c is being performed, on a profile read after every
\* earlier upsert
SequentialUpsert(c) ==
    /\ mem[c].pc = "write"
    /\ mem'[c].writes = mem[c].writes + 1
    /\ mem[c].seen = Len(ghost.merges)

LastMerge == ghost.merges[Len(ghost.merges)]

MergedCleanly(c) ==
    /\ mem[c].op = "updateLongTermMemory" /\ mem[c].pc = "done"
    /\ mem[c].readOk /\ mem[c].writes = 1

\* C18: once two merges for the same user have both completed, in whatever
\* order their reads and upserts were interleaved, every key either of them
\* wrote is in the profile, with the value one of the two merges gave it.
C18_ConcurrentMergesKeepKeys ==
    \A c, d \in DOMAIN mem :
        /\ c # d
        /\ MergedCleanly(c) /\ MergedCleanly(d)
        /\ mem[c].userId = mem[d].userId
        /\ mem[c].seen <= mem[d].seen
        /\ Len(ghost.merges) = mem[c].seen + 2
        => LET profile == getLongTermMemory(profiles, mem[c].userId, TRUE)
           IN  \A k \in DOMAIN mem[c].filteredFacts \cup DOMAIN mem[d].filteredFacts :
                /\ k \in DOMAIN profile
                /\ \/ k \in DOMAIN mem[c].filteredFacts
                        /\ profile[k] = mem[c].filteredFacts[k]
                   \/ k \in DOMAIN mem[d].filteredFacts
                        /\ profile[k] = mem[d].filteredFacts[k]

\* caller c ends its merge in this step, no other merge is in progress and
\* none was upserted since c read the profile
SequentialMergeEnds(c) ==
    /\ mem[c].pc = "write" /\ mem'[c].pc = "done"
    /\ mem[c].seen = Len(ghost.merges)
    /\ \A d \in DOMAIN mem \ {c} : mem[d].pc \notin {"read", "write"}

\* every key of profile before that the merge did not supply is in profile
\* after, with the same value
KeptKeys(before, after, supplied) ==
    \A k \in DOMAIN before \ DOMAIN supplied :
        k \in DOMAIN after /\ after[k] = before[k]

\* C19: a merge run on its own keeps every key of the stored profile that
\* it was not given, with its value, whether or not the SELECT or the
\* upsert of the merge fails.
C19_MergeKeepsOtherKeys ==
    [][\A c \in DOMAIN mem :
        SequentialMergeEnds(c)
            => KeptKeys(getLongTermMemory(profiles, mem[c].userId, TRUE),
                        getLongTermMemory(profiles', mem[c].userId, TRUE),
                        mem[c].filteredFacts)]_vars

\* the n most recently appended messages, most recent first
MostRecent(appended, n) == Reverse(SliceLast(appended, n))

\* the updateShortTermMemory call of caller c returns in this step
UpdateShortTermReturns(c) ==
    /\ mem[c].op = "updateShortTermMemory"
    /\ mem[c].pc # "done" /\ mem'[c].pc = "done"

\* C20: when an updateShortTermMemory call on a session returns, the stored
\* list is the min(n, ShortTermSize) most recently appended messages of the
\* session, most recent first (n being the number appended so far), and
\* getShortTermMemory never returns more than ShortTermSize messages.
C20_ListHoldsMostRecent ==
    /\ [][\A c \in DOMAIN mem :
            UpdateShortTermReturns(c)
                => lRange(redisLists', ShortTermKey(mem[c].userId, mem[c].sessionId))
                        = MostRecent(ghost'.appended, ShortTermSize)]_vars
    /\ [](\A c \in DOMAIN mem :
            mem[c].op = "getShortTermMemory" => Len(mem[c].ret) <= ShortTermSize)

\* lTrim(key, 0, shortTermSize - 1) followed by expire(key, sessionExpiry)
TrimThenExpire(lists, key) ==
    expire(lTrim(lists, key, ShortTermSize - 1), key, SessionExpiry)

\* C21: whatever the interleaving of the calls appending to one session,
\* the stored list is the most recently pushed messages in push order,
\* most recent first: a pushed message is missing only if it is older than
\* every stored one, at least min(n, ShortTermSize) of the n pushed messages
\* are stored, and trim followed by expire applied twice gives what it
\* gives applied once.
C21_NoAppendLost ==
    LET items == lRange(redisLists, MemKey)
    IN  /\ items = MostRecent(ghost.appended, Len(items))
        /\ Len(items) >= Len(ghost.appended) \/ Len(items) >= ShortTermSize
        /\ TrimThenExpire(TrimThenExpire(redisLists, MemKey), MemKey)
                = TrimThenExpire(redisLists, MemKey)

\* two calls have interleaved their pushes (message 12 went in before
\* message 11) and both have returned after their trim
C21_Witness ==
    /\ Len(ghost.appended) = ShortTermSize + 2
    /\ ghost.appended[ShortTermSize + 1] = NthMessage(ShortTermSize + 2)
    /\ ghost.appended[ShortTermSize + 2] = NthMessage(ShortTermSize + 1)
    /\ Len(lRange(redisLists, MemKey)) = ShortTermSize
    /\ \A c \in DOMAIN mem : mem[c].op = "updateShortTermMemory" /\ mem[c].pc = "done"

\* the conversation request i went past the registration of its session
Registered(i) == req[i].pc # "new" /\ req[i].res.status # 400

\* C22: once a conversation request for (userId, sessionId) is past the
\* registration step, the set sessions:<userId> contains the sessionId (a
\* set holds it once however often it is added) and the history endpoint
\* goes through that session.
C22_SessionRegistered ==
    \A i \in DOMAIN req :
        Registered(i)
            => /\ req[i].sessionId \in sMembers(redisSets, req[i].userId)
               /\ req[i].sessionId \in HistorySessions(redisSets, req[i].userId)

\* the sessionId of the body of request i ("" when the caller sent none)
BodySessionId(i) == (CHOOSE ev \in ghost : ev.e = "body" /\ ev.req = i).role

\* the Redis keys request i read its history from and pushed its turn to
KeysUsed(i) == {ev.role : ev \in {x \in ghost : x.req = i /\ x.e \in {"lRange", "key"}}}

\* C23: the sessionId of a success response is the caller's sessionId when
\* the body had one and otherwise an id minted for this request (no id a
\* caller sent, no id of another request, no session with stored messages
\* before the request); the history of the turn was read from, and its
\* messages are pushed to, the list of exactly that session.
C23_EffectiveSessionEchoed ==
    \A i \in DOMAIN req :
        req[i].res.success = "true"
            => /\ IF BodySessionId(i) # ""
                  THEN req[i].res.sessionId = BodySessionId(i)
                  ELSE /\ req[i].res.sessionId \notin BodySessionIds
                       /\ \A j \in DOMAIN req \ {i} :
                            req[j].sessionId # req[i].res.sessionId
                       /\ \A lists \in InitialLists :
                            ShortTermKey(req[i].userId, req[i].res.sessionId)
                                \notin DOMAIN lists
               /\ KeysUsed(i) = {ShortTermKey(req[i].userId, req[i].res.sessionId)}

\* a request sent without sessionId was answered and its two messages
\* are stored under the minted id
C23_Witness ==
    \E i \in DOMAIN req :
        /\ req[i].res.success = "true"
        /\ BodySessionId(i) = ""
        /\ Event("lPush", i, "model") \in ghost
        /\ Len(lRange(redisLists, ShortTermKey(req[i].userId, req[i].res.sessionId))) = 2

\* C24: every response of the conversation endpoint that is not a success
\* (rejected body, failed backend, timeout) carries success = false and an
\* error, and no response text.
C24_FailureShape ==
    \A i \in DOMAIN req :
        req[i].res.sent /\ req[i].res.status # 200
            => /\ req[i].res.success = "false"
               /\ req[i].res.error # ""
               /\ req[i].res.text = ""

\* the read of request i named what ("history" or "profile") found nothing
\* or was not answered by the store
EmptyRecall(i, what) ==
    \E ev \in ghost : ev.e = what /\ ev.req = i /\ ev.role \in {"missing", "unreadable"}

\* C25: a short-term list that is missing or cannot be read gives the
\* request an empty history, a profile that is missing or cannot be read an
\* empty profile; the pipeline goes on to the next stage, and a failure
\* response of such a request comes from the timer or from the generation
\* call, never from RECALL.
C25_RecallNeverFails ==
    \A i \in DOMAIN req :
        /\ EmptyRecall(i, "history")
            => req[i].history = <<>> /\ req[i].pc \notin {"new", "history"}
        /\ EmptyRecall(i, "profile")
            => req[i].userProfile = <<>> /\ req[i].pc \notin {"new", "history", "profile"}
        /\ (EmptyRecall(i, "history") \/ EmptyRecall(i, "profile"))
                /\ req[i].res.sent /\ req[i].res.success # "true"
            => TimedOut(i) \/ GenerationFailed(i)

\* a request whose two reads both failed was answered with a reply
C25_Witness ==
    \E i \in DOMAIN req :
        /\ Event("history", i, "unreadable") \in ghost
        /\ Event("profile", i, "unreadable") \in ghost
        /\ req[i].res.success = "true"

\* GENERATE and VALIDATE of request i are over
ReplyValidated(i) == req[i].pc = "done" /\ Event("generate", i, "delivered") \in ghost

\* C26: the stages of a request run in pipeline order: PERSIST, and with it
\* every memory write of the turn, starts only when the reply has been
\* generated and validated, and RESPOND is the last stage: once the
\* response is sent no stage of the request completes or starts any more,
\* except that a PERSIST already started may still finish.
C26_StagesInOrder ==
    /\ [](\A i \in DOMAIN req :
            /\ BgStarted(i) => ReplyValidated(i)
            /\ WroteMemory(i) => ReplyValidated(i))
    /\ [][\A i \in DOMAIN req :
            req[i].res.sent
                => /\ req'[i].pc = req[i].pc
                   /\ req[i].bg = "idle" => req'[i].bg = "idle"]_vars

OnlyWriter(i) == \A ev \in ghost : ev.e = "lPush" => ev.req = i

\* C28: while one updateShortTermMemory call works on a session list that
\* was within capacity, wherever the call stops (a failed command, or no
\* further step at all), the list holds at most ShortTermSize + 1 messages.
C28_AtMostOneExtra ==
    \A i \in DOMAIN req :
        OnlyWriter(i)
            => Len(lRange(redisLists, ShortTermKey(req[i].userId, req[i].sessionId)))
                    <= ShortTermSize + 1

\* C29: the contents handed to the generation backend for a turn are the
\* system prompt, then the stored messages of the session in the order
\* they were appended, oldest first, then the new utterance.
C29_HistoryOldestFirst ==
    \A i \in DOMAIN req :
        /\ Event("history", i, "found") \in ghost
        /\ \A ev \in ghost : ev.e # "lPush"
        => contents("system", req[i].history, req[i].inputText)
            = <<Message("user", "system")>>
                \o Reverse(lRange(redisLists,
                        ShortTermKey(req[i].userId, req[i].sessionId)))
                \o <<Message("user", req[i].inputText)>>

(***************************************************************************)
(* Properties of processInputForMemory                                     *)
(***************************************************************************)
ProcessReturned ==
    rulesCall.op = "processInputForMemory" /\ rulesRet.done

\* C31: processInputForMemory returns longTermAction store with a non-null
\* fact exactly when the utterance is classified as fact and the fact passes
\* validateMemoryFact; reject with a null fact when the utterance matches a
\* rejection pattern or its extracted fact fails validation; none with a
\* null fact for emotional and ambiguous utterances
C31_ProcessInputActions ==
    ProcessReturned =>
        LET input == rulesCall.input
            out == rulesRet.processing
            fact == FirstExtractedFact(input)
            rejected == MatchesRejection(input)
            isFact == ~rejected /\ ~fact.isNull /\ ~containsEmotionalContent(fact.value)
            valid == isFact /\ validateMemoryFact(FactObj(fact.type, Str(fact.value))).isValid
        IN  /\ (out.longTermAction = "store" /\ ~out.fact.isNull) <=> valid
            /\ valid => out.fact = fact
            /\ (rejected \/ (isFact /\ ~valid))
                  => (out.longTermAction = "reject" /\ out.fact.isNull)
            /\ (~rejected /\ ~isFact)
                  => (/\ out.longTermAction = "none"
                      /\ out.fact.isNull
                      /\ out.decisionDetails.type \in {"emotional", "ambiguous"})

\* an utterance that matches no rejection pattern, is classified as fact, and
\* is rejected because validateMemoryFact turns its fact down
C31_Witness ==
    /\ ProcessReturned
    /\ ~MatchesRejection(rulesCall.input)
    /\ rulesRet.processing.decisionDetails.type = "fact"
    /\ rulesRet.processing.longTermAction = "reject"
    /\ rulesRet.processing.fact.isNull

(***************************************************************************)
(* Properties of extractFact                                               *)
(***************************************************************************)
\* the capture group of fact pattern p that holds the declared content
\* (0: the pattern captures none) and the one that holds its keyword
ValueGroup(p) == IF p = 1 THEN 4 ELSE IF p \in {2, 3, 4, 9} THEN 2 ELSE 0
KeywordGroup(p) == IF p = 1 THEN 3 ELSE 1

\* what the utterance declares after the keyword of fact pattern p
DeclaredContent(input, p) ==
    LET m == MatchI(factIndicators[p], input)
    IN  IF ValueGroup(p) # 0 THEN Group(input, m, ValueGroup(p))
        ELSE SubSeq(input, m.end, Len(input))

\* C32: for an utterance that matches no rejection pattern, the fact comes
\* from the first fact pattern that matches: its value is the declared
\* content after the keyword with trailing punctuation removed, and its type
\* is resolved from the matched keyword (name, interest, preference,
\* occupation, location, age, else general)
C32_FactFromFirstPattern ==
    (ShouldStoreReturned /\ rulesRet.decision.type = "fact") =>
        LET input == rulesCall.input
            p == FirstFactPattern(input)
            keyword == Group(input, MatchI(factIndicators[p], input), KeywordGroup(p))
        IN  /\ ~MatchesRejection(input)
            /\ p # 0
            /\ rulesRet.decision.fact.value
                  = StripTrailingPunct(Trim(DeclaredContent(input, p)))
            /\ rulesRet.decision.fact.type = getFactTypeFromMatch(keyword)

(***************************************************************************)
(* Properties of summarizeConversation                                     *)
(***************************************************************************)
SummaryReturned == mem[1].op = "summarizeConversation" /\ mem[1].pc = "done"

\* the labels the messages carry
LabelsOf(messages) ==
    {messages[k].emotionalContext : k \in 1..Len(messages)} \ {""}

\* label occurs at least as often as every other label of the messages
IsMostFrequent(messages, label) ==
    LET n(l) == Cardinality({k \in 1..Len(messages) : messages[k].emotionalContext = l})
    IN  label \in LabelsOf(messages) /\ \A l \in LabelsOf(messages) : n(label) >= n(l)

\* C33: for every non-empty message list summarizeConversation returns a
\* summary whose messageCount is the number of messages, whose
\* primaryEmotion is the most frequent emotion label among the messages
\* (neutral when no message carries one) and whose significance is
\* min(1, messageCount / 10); for an empty list it returns no summary
C33_SummaryStatistics ==
    SummaryReturned =>
        LET messages == mem[1].messages
            ret == mem[1].ret
        IN  IF Len(messages) = 0 THEN ret = Resolved(Null)
            ELSE /\ ~ret.threw
                 /\ ret.value.t = "summary"
                 /\ ret.value.messageCount = Len(messages)
                 /\ IF LabelsOf(messages) = {} THEN ret.value.primaryEmotion = "neutral"
                    ELSE IsMostFrequent(messages, ret.value.primaryEmotion)
                 /\ ret.value.significance
                      = (IF Len(messages) < SignificanceScale
                         THEN Len(messages) ELSE SignificanceScale)
                 /\ ret.value.significance \in 0..SignificanceScale

(***************************************************************************)
(* Properties of the short-term expiry                                     *)
(***************************************************************************)
\* no updateShortTermMemory call is between its first command and its return
NoAppendInProgress ==
    \A c \in DOMAIN mem : mem[c].pc \notin {"push", "trim", "expire"}

\* C34: every non-empty short-term list in the store carries an expiry no
\* longer than the configured idle TTL, after any sequence of appends,
\* including appends that fail part-way (so that a session with no
\* further appends expires after the TTL)
C34_ListsCarryExpiry ==
    NoAppendInProgress =>
        \A key \in DOMAIN redisLists :
            redisLists[key].items # <<>> => redisLists[key].ttl \in 0..SessionExpiry

(***************************************************************************)
(* Properties of validateMemoryClaims                                      *)
(***************************************************************************)
\* the reply holds a recollection phrase
ClaimsRecollection(response) ==
    \E i \in DOMAIN memoryClaimPatterns : HoldsPhrase(response, memoryClaimPatterns[i])

\* what the reply recalls is a key of the snapshot: the reply names the key
RecallsKnownFact(response, keys) ==
    \E key \in keys : HoldsPhrase(response, key)

\* C35: when a long-term memory snapshot is supplied to validate, a reply
\* that holds a recollection phrase is reported as unverified_memory_claim
\* exactly when what it claims to recall is not a key of the snapshot; a
\* reply recalling a fact whose key is in the snapshot is not flagged, and
\* without a snapshot no memory-claim violation is reported
C35_MemoryClaimGrounded ==
    (ValidateReturned /\ valCall.response.t = "string") =>
        IF valCall.memory.t = "object" /\ valCall.memory.hasLongTerm
        THEN ("unverified_memory_claim" \in TypesOf(valRet.report))
               <=> (/\ ClaimsRecollection(valCall.response)
                    /\ ~RecallsKnownFact(valCall.response, valCall.memory.keys))
        ELSE "unverified_memory_claim" \notin TypesOf(valRet.report)

(***************************************************************************)
(* Properties of the validation report                                     *)
(***************************************************************************)
\* C36: in every report returned by validate the three summaries agree:
\* overallValid is true exactly when totalViolations is 0 and exactly when
\* violationsByType is empty; every violation reported by a sub-check
\* appears under its own type in violationsByType, and totalViolations is
\* the number of violations listed there
C36_ReportSummariesAgree ==
    ValidateReturned =>
        LET report == valRet.report
        IN  /\ report.overallValid <=> (report.totalViolations = 0)
            /\ report.overallValid <=> (TypesOf(report) = {})
            /\ \A k \in DOMAIN report.ruleResults :
                  \A j \in DOMAIN report.ruleResults[k].violations :
                    LET v == report.ruleResults[k].violations[j]
                    IN  \E x \in DOMAIN ByType(report, v.type) :
                            ByType(report, v.type)[x] = v
            /\ report.totalViolations = Len(report.violationsByType)

(***************************************************************************)
(* Properties of reading a conversation back                               *)
(***************************************************************************)
\* the session id of request i was minted by the server
Minted(i) == Event("body", i, "") \in ghost

\* C37: reading a conversation back returns what was written: for every
\* user id (including ids that contain '_') and every session id minted by
\* the server for that user, GET /api/conversation/:sessionId reads the
\* short-term key that POST /api/conversation appended to, so it returns
\* the messages stored for that turn sequence
C37_ReadBackSameKey ==
    \A i \in DOMAIN req :
        (req[i].loaded.done /\ Minted(i)) =>
            /\ req[i].loaded.key = ShortTermKey(req[i].userId, req[i].sessionId)
            /\ req[i].loaded.ok =>
                  req[i].loaded.messages
                    = SliceLast(lRange(redisLists,
                                       ShortTermKey(req[i].userId, req[i].sessionId)),
                                ShortTermSize)

(***************************************************************************)
(* Properties of what a turn persists                                      *)
(***************************************************************************)
\* the short-term list of the session named in the response to request i
ListOfResponse(i) ==
    lRange(redisLists, ShortTermKey(req[i].userId, req[i].res.sessionId))

\* message is one of the items
Holds(items, message) == \E k \in DOMAIN items : items[k] = message

\* C38: what is persisted for a turn is what the caller saw: the bot
\* message appended to short-term memory has exactly the text returned in
\* the response, the user message has exactly the request's inputText, and
\* both are appended to the session named in the response
C38_PersistedIsWhatWasReturned ==
    \A i \in DOMAIN req :
        /\ \A ev \in ghost :
              (ev.e = "key" /\ ev.req = i)
                  => ev.role = ShortTermKey(req[i].userId, req[i].res.sessionId)
        /\ Event("lPush", i, "user") \in ghost
              => Holds(ListOfResponse(i), Message("user", req[i].inputText))
        /\ Event("lPush", i, "model") \in ghost
              => Holds(ListOfResponse(i), Message("model", req[i].res.text))

(***************************************************************************)
(* Properties of the profile store                                         *)
(***************************************************************************)
\* validateMemoryFact accepts the value under its key
AcceptedFact(key, value) == validateMemoryFact(FactObj(key, value)).isValid

\* C39: in every reachable state each value of every user's long-term
\* profile was accepted by validateMemoryFact when it was merged: no write
\* reaches the profile store with a value that fails fact validation
C39_ProfileValuesAccepted ==
    \A userId \in DOMAIN profiles :
        \A key \in DOMAIN profiles[userId] :
            AcceptedFact(key, profiles[userId][key])

\* a merge was written whose facts held a value that fails validation
\* next to one that passes: the profile took the second and not the first
C39_Witness ==
    /\ ghost.merges # <<>>
    /\ \E k \in DOMAIN LastMerge.facts : ~AcceptedFact(k, LastMerge.facts[k])
    /\ \E k \in DOMAIN LastMerge.facts :
          /\ AcceptedFact(k, LastMerge.facts[k])
          /\ LastMerge.userId \in DOMAIN profiles
          /\ k \in DOMAIN profiles[LastMerge.userId]
          /\ profiles[LastMerge.userId][k] = LastMerge.facts[k]

=============================================================================
